---- MODULE Spec2Model ----
(***************************************************************************)
(* A model of the rolling bar store (strategy/scanner.py), the pullback    *)
(* pipeline (strategy/strategy_engine.py) and the gated decision engine    *)
(* (strategy/decision_engine.py).                                          *)
(*                                                                         *)
(* Decimal quantities (scores, weights, distance fractions) are carried as *)
(* integers in units of 0.0001: 8.0 is 80000, 0.015 is 150.                *)
(***************************************************************************)
EXTENDS Integers, Sequences, FiniteSets, TLC

VARIABLES
    \* ---- MarketScanner (strategy/scanner.py) ----
    max_len,          \* self.max_len
    bars,             \* self._bars: instrument -> deque of bar records
    bars_closed,      \* self.bars_closed
    bars_received,    \* self.bars_received
    callbacks,        \* self._on_bar_close_callbacks, in registration order
    last_alert_time,  \* self.last_alert_time: instrument -> epoch seconds
    dedupe_map,       \* self._dedupe_map: instrument -> (direction -> epoch seconds)
    paused_until,     \* self._paused_until: instrument -> epoch seconds
    snapshot_file,    \* the JSON document at snapshot_path, or NoFile
    now,              \* what time.time() returns
    \* ---- the listeners' side and the record of the last store operation ----
    raises,           \* the registered callables that raise when called
    last_op,          \* what the last operation was given, called and returned
    \* ---- history kept beside the store to state the claims ----
    hist,             \* instrument -> every bar put in its series, evicted ones kept
    frozen,           \* instrument -> per bar of hist: its value when closed, or OpenBar
    dlog,             \* the dedupe_alert calls made so far, each with its outcome
    \* ---- threads inside MarketScanner methods ----
    locks,            \* self._locks: instrument -> the thread holding its lock, or Free
    pc,               \* thread -> the statement it is at
    frame,            \* thread -> the arguments and locals of its call
    \* ---- StrategyEngine (strategy/strategy_engine.py) ----
    mtf_buffers,      \* self.mtf_builder.buffers: instrument -> 1-minute bars
    vwap_calculators, \* self.vwap_calculators: instrument -> update() calls made
    ev,               \* the evaluation in progress or last finished
    ev_seen,          \* the contents of the series at the evaluation's accessor calls
    ev_given,         \* <<x>>: what the collaborators returned to an observed evaluation
    \* ---- the stream handler (core/market_streamer.py) ----
    today,            \* the date of the last message handled, as a day number
    signals_today,    \* signals_today: day -> the instruments signalled that day
    entries,          \* the handle_entry calls made so far, each with its outcome
    handled,          \* the number of messages handled
    executes,         \* <<day, instrument>> -> the EXECUTE decisions returned for it
    \* ---- DecisionEngine (strategy/decision_engine.py) ----
    dec_trace,        \* the gates the last final_trade_decision call evaluated, in order
    dec_in,           \* the arguments of one final_trade_decision call
    dec_out,          \* the DecisionResult it returned, or NoDecision before the call
    \* ---- MTFBuilder / analyze_mtf called on their own ----
    call_in,          \* the function called and its arguments
    call_out          \* what it returned, or NotReturned before the call

barVars == <<max_len, bars, bars_closed, bars_received>>
alertVars == <<last_alert_time, dedupe_map, paused_until>>
listenerVars == <<callbacks, raises, last_op>>
historyVars == <<hist, frozen, dlog>>
scannerVars == <<barVars, alertVars, listenerVars, historyVars, snapshot_file, now>>
threadVars == <<locks, pc, frame>>
streamVars == <<today, signals_today, entries, handled, executes>>
\* the engine, and the stream handler that owns it
evalVars == <<mtf_buffers, vwap_calculators, ev, ev_seen, ev_given, streamVars>>
decisionVars == <<dec_in, dec_out, dec_trace, call_in, call_out>>
\* what no MarketScanner method touches
restVars == <<threadVars, evalVars, decisionVars>>
vars == <<scannerVars, threadVars, evalVars, decisionVars>>

Min(a, b) == IF a <= b THEN a ELSE b
Max(a, b) == IF a >= b THEN a ELSE b
Abs(a) == IF a >= 0 THEN a ELSE -a

\* num/den rounded to the nearest integer, an exact half going down: the value
\* the code rounds lies just under the exact quotient (the 1e-9 in a divisor).
RoundHalfDown(num, den) == -((den - 2 * num) \div (2 * den))

\* round(x, 2) of a quantity carried in units of 0.0001 (banker's rounding).
Round2(x) ==
    LET q == x \div 100
        r == x % 100
    IN  IF r < 50 THEN 100 * q
        ELSE IF r > 50 THEN 100 * (q + 1)
        ELSE IF q % 2 = 0 THEN 100 * q ELSE 100 * (q + 1)

(***************************************************************************)
(* strategy/scanner.py: the bar store                                      *)
(***************************************************************************)

Instruments == {"X", "Y"}
Listeners == {"cbA", "cbB"}
Prices == {1, 2}

\* The threads that call into the scanner, and the mark of a lock nobody holds.
Threads == {"t1", "t2"}
Free == "free"
GlobalLock == "_global_lock"
NoFrame == [op |-> "none"]

\* ---- bounds of the model ----
MaxCap == 2         \* the largest configured capacity (max_len) explored
MaxMinute == 2      \* bars and ticks fall in minutes 1..MaxMinute
MaxOps == 3         \* bars and ticks ingested in one run

EmptyMap == [k \in {} |-> 0]

LastN(seq, n) ==
    IF Len(seq) <= n THEN seq ELSE SubSeq(seq, Len(seq) - n + 1, Len(seq))

Last(seq) == seq[Len(seq)]

BarFields == {"time", "open", "high", "low", "close", "volume"}

Bar(t, o, h, l, c, v) ==
    [time |-> t, open |-> o, high |-> h, low |-> l, close |-> c, volume |-> v]

\* Timestamps are seconds; a bar's "time" is the ISO text of a minute start,
\* carried as that minute's first second (the text orders as the number does).
MinuteStart(m) == 60 * m

\* timestamp.replace(second=0, microsecond=0).strftime(ISOFMT)
TruncateToMinute(ts) == ts - (ts % 60)

\* A plain list append: the ring never evicts.
DequeAppendNoEvict(dq, x, maxlen) == Append(dq, x)

\* deque(maxlen=...).append(x): when full, the leftmost item is discarded.
DequeAppend(dq, x, maxlen) == LastN(Append(dq, x), maxlen)

\* deque(items, maxlen=...): the last maxlen items, in order.
DequeFrom(items, maxlen) == LastN(items, maxlen)

\* _ensure_inst
EnsureInst(b, inst) == IF inst \in DOMAIN b THEN b ELSE (inst :> <<>>) @@ b

\* ---- bar-close listeners ----

RECURSIVE CallListenersUnguarded(_, _, _, _)
\* The dispatch loop without its try/except: the first listener that raises
\* ends the loop and the exception reaches the caller.
CallListenersUnguarded(cbs, inst, bar, rs) ==
    IF cbs = <<>> THEN [calls |-> <<>>, outcome |-> "returned"]
    ELSE LET call == [cb |-> Head(cbs), inst |-> inst, bar |-> bar]
         IN  IF Head(cbs) \in rs
             THEN [calls |-> <<call>>, outcome |-> "raised"]
             ELSE LET rest == CallListenersUnguarded(Tail(cbs), inst, bar, rs)
                  IN  [calls |-> <<call>> \o rest.calls, outcome |-> rest.outcome]

RECURSIVE CallListeners(_, _, _, _)
\* for cb in list(callbacks): try: cb(inst, bar) / except Exception: pass
CallListeners(cbs, inst, bar, rs) ==
    IF cbs = <<>> THEN [calls |-> <<>>, outcome |-> "returned"]
    ELSE LET call == [cb |-> Head(cbs), inst |-> inst, bar |-> bar]
             rest == CallListeners(Tail(cbs), inst, bar, rs)
         IN  IF Head(cbs) \in rs
             THEN \* the exception is caught and passed over
                  [calls |-> <<call>> \o rest.calls, outcome |-> rest.outcome]
             ELSE [calls |-> <<call>> \o rest.calls, outcome |-> rest.outcome]

NoOp ==
    [kind |-> "none", inst |-> "", bar |-> Bar(0, 0, 0, 0, 0, 0),
     listeners |-> <<>>, closed_before |-> 0, calls |-> <<>>, outcome |-> "none"]

\* register_on_bar_close
RegisterOnBarClose(cb) ==
    /\ cb \notin {callbacks[k] : k \in DOMAIN callbacks}
    /\ callbacks' = Append(callbacks, cb)
    /\ UNCHANGED <<barVars, alertVars, snapshot_file, now, raises, last_op,
                   historyVars, restVars>>

\* unregister_on_bar_close
UnregisterOnBarClose(cb) ==
    /\ cb \in {callbacks[k] : k \in DOMAIN callbacks}
    /\ callbacks' = SelectSeq(callbacks, LAMBDA c : c # cb)
    /\ UNCHANGED <<barVars, alertVars, snapshot_file, now, raises, last_op,
                   historyVars, restVars>>

\* ---- the history kept beside the store ----

OpenBar == Bar(-1, 0, 0, 0, 0, 0)

\* A new bar of a later minute supersedes the last one: from then on the last
\* one counts as closed with the value it has.
FreezeSuperseded(fz, h, newtime) ==
    IF h # <<>> /\ fz[Len(h)] = OpenBar /\ newtime > Last(h).time
    THEN [fz EXCEPT ![Len(h)] = Last(h)]
    ELSE fz

\* ---- ingestion ----

\* append_ohlc_bar(inst, time_iso, open_p, high_p, low_p, close_p, volume)
AppendOhlcBar(inst, bar) ==
    LET b1 == EnsureInst(bars, inst)
        d == CallListeners(callbacks, inst, bar, raises)
    IN  /\ bars' = [b1 EXCEPT ![inst] = DequeAppend(@, bar, max_len)]
        /\ bars_closed' = bars_closed + 1
        /\ last_op' = [kind |-> "append_ohlc_bar", inst |-> inst, bar |-> bar,
                       listeners |-> callbacks, closed_before |-> bars_closed,
                       calls |-> d.calls, outcome |-> d.outcome]
        /\ hist' = [hist EXCEPT ![inst] = Append(@, bar)]
        /\ frozen' = [frozen EXCEPT
                        ![inst] = Append(FreezeSuperseded(@, hist[inst], bar.time), bar)]
        /\ UNCHANGED <<dlog, max_len, bars_received, callbacks, alertVars, snapshot_file,
                       now, raises, restVars>>

\* The in-place update of the last bar by a tick of its minute.
MergeTick(bar, price, volume) ==
    [bar EXCEPT !.high = Max(@, price), !.low = Min(@, price),
                !.close = price, !.volume = @ + volume]

\* append_tick(inst, timestamp, price, volume)
AppendTick(inst, timestamp, price, volume) ==
    LET b1 == EnsureInst(bars, inst)
        time_iso == TruncateToMinute(timestamp)
        dq == b1[inst]
        fresh == Bar(time_iso, price, price, price, price, volume)
    IN  /\ bars_received' = bars_received + 1
        /\ IF dq = <<>> \/ Last(dq).time # time_iso
           THEN /\ bars' = [b1 EXCEPT ![inst] = DequeAppend(@, fresh, max_len)]
                /\ hist' = [hist EXCEPT ![inst] = Append(@, fresh)]
                /\ frozen' = [frozen EXCEPT
                                ![inst] = Append(FreezeSuperseded(@, hist[inst], time_iso),
                                                 OpenBar)]
           ELSE /\ bars' = [b1 EXCEPT
                              ![inst][Len(dq)] = MergeTick(@, price, volume)]
                /\ hist' = [hist EXCEPT
                              ![inst][Len(hist[inst])] = MergeTick(@, price, volume)]
                /\ UNCHANGED frozen
        /\ UNCHANGED <<dlog, max_len, bars_closed, listenerVars, alertVars,
                       snapshot_file, now, restVars>>

\* ---- alert throttling ----

Directions == {"LONG", "SHORT"}

MaxCalls == 3       \* dedupe_alert calls in one run
MaxAdvance == 3     \* seconds the clock advances in one run

\* The suppression test with the window's edge included.
IsWithinWindowInclusive(last_for_dir, now_ts, window_seconds) ==
    last_for_dir # 0 /\ (now_ts - last_for_dir) <= window_seconds

\* last_for_dir and (now_ts - last_for_dir) < window_seconds; 0 stands for
\* None (and for 0.0), both falsy.
IsWithinWindow(last_for_dir, now_ts, window_seconds) ==
    last_for_dir # 0 /\ (now_ts - last_for_dir) < window_seconds

\* self._dedupe_map[inst]: the defaultdict makes the instrument's dict on
\* first access.
TouchInst(map, inst) == IF inst \in DOMAIN map THEN map ELSE (inst :> EmptyMap) @@ map

\* map[inst].get(direction), 0 for None
LastForDir(map, inst, direction) ==
    IF inst \in DOMAIN map /\ direction \in DOMAIN map[inst]
    THEN map[inst][direction] ELSE 0

\* dedupe_alert(inst, direction, window_seconds)
DedupeAlert(inst, direction, window_seconds) ==
    LET now_ts == now
        m1 == TouchInst(dedupe_map, inst)
        last_for_dir == LastForDir(m1, inst, direction)
        suppressed == IsWithinWindow(last_for_dir, now_ts, window_seconds)
        m2 == IF suppressed THEN m1
              ELSE [m1 EXCEPT ![inst] = (direction :> now_ts) @@ @]
    IN  /\ dedupe_map' = m2
        /\ dlog' = Append(dlog, [inst |-> inst, direction |-> direction,
                                 window |-> window_seconds, at |-> now_ts,
                                 duplicate |-> suppressed,
                                 before |-> LastForDir(dedupe_map, inst, direction),
                                 after |-> LastForDir(m2, inst, direction)])
        /\ UNCHANGED <<barVars, listenerVars, last_alert_time, paused_until,
                       snapshot_file, now, hist, frozen, restVars>>

\* time.time() moves on.
ClockAdvance ==
    /\ now' = now + 1
    /\ UNCHANGED <<barVars, listenerVars, alertVars, snapshot_file, historyVars,
                   restVars>>

\* ---- replay ----

\* Room for n more bars or ticks within the run's bound.
Budget(n) == bars_closed + bars_received + n <= MaxOps

IsWellFormed(bar) == BarFields \subseteq DOMAIN bar

RECURSIVE AppendAll(_, _, _)
AppendAll(dq, items, maxlen) ==
    IF items = <<>> THEN dq
    ELSE AppendAll(DequeAppend(dq, Head(items), maxlen), Tail(items), maxlen)

RECURSIVE CallListenersForAll(_, _, _, _)
CallListenersForAll(cbs, inst, items, rs) ==
    IF items = <<>> THEN <<>>
    ELSE CallListeners(cbs, inst, Head(items), rs).calls
         \o CallListenersForAll(cbs, inst, Tail(items), rs)

\* replay_bars(inst, bars, call_callbacks)
ReplayBars(inst, items, call_callbacks) ==
    LET b1 == EnsureInst(bars, inst)
        valid == SelectSeq(items, IsWellFormed)
    IN  /\ bars' = [b1 EXCEPT ![inst] = AppendAll(@, valid, max_len)]
        /\ bars_closed' = bars_closed + Len(valid)
        /\ last_op' = [kind |-> "replay_bars", inst |-> inst, bar |-> NoOp.bar,
                       listeners |-> callbacks, closed_before |-> bars_closed,
                       calls |-> IF call_callbacks
                                 THEN CallListenersForAll(callbacks, inst, valid, raises)
                                 ELSE <<>>,
                       outcome |-> "returned"]
        /\ hist' = [hist EXCEPT ![inst] = @ \o valid]
        /\ frozen' = [frozen EXCEPT ![inst] = @ \o valid]
        /\ UNCHANGED <<dlog, max_len, bars_received, callbacks, alertVars, snapshot_file,
                       now, raises, restVars>>

\* ---- snapshot ----

NoFile == [present |-> FALSE]

\* json.dump writes a dict as an object: its members, each a key with its
\* value (the keys here are all text: instrument keys, directions, and the
\* field names of a bar).
JsonObject(dict) == {<<k, dict[k]>> : k \in DOMAIN dict}

\* json.load with an object whose first member is lost.
JsonDictDropsMember(object) ==
    LET keys == {m[1] : m \in object}
        kept == keys \ {CHOOSE k \in keys : TRUE}
    IN  [k \in IF keys = {} THEN {} ELSE kept |->
            (CHOOSE m \in object : m[1] = k)[2]]

\* json.load reads an object back as a dict: one key for each member.
JsonDict(object) ==
    [k \in {m[1] : m \in object} |-> (CHOOSE m \in object : m[1] = k)[2]]

\* A list of bar dicts as an array of objects, and back.
JsonBars(list) == [n \in DOMAIN list |-> JsonObject(list[n])]

BarsOfJson(array) == [n \in DOMAIN array |-> JsonDict(array[n])]

\* A dict of dicts (the dedupe map) as an object of objects, and back.
JsonNested(dict) == JsonObject([k \in DOMAIN dict |-> JsonObject(dict[k])])

NestedOfJson(object) ==
    LET outer == JsonDict(object)
    IN  [k \in DOMAIN outer |-> JsonDict(outer[k])]

\* json.dump(data, f): the document save_snapshot writes.
JsonDump(data) ==
    [bars |-> JsonObject([i \in DOMAIN data.bars |-> JsonBars(data.bars[i])]),
     last_alert_time |-> JsonObject(data.last_alert_time),
     dedupe_map |-> JsonNested(data.dedupe_map),
     paused_until |-> JsonObject(data.paused_until),
     timestamp |-> data.timestamp]

\* json.load(f)
JsonLoad(text) ==
    LET b == JsonDict(text.bars)
    IN  [bars |-> [i \in DOMAIN b |-> BarsOfJson(b[i])],
         last_alert_time |-> JsonDict(text.last_alert_time),
         dedupe_map |-> NestedOfJson(text.dedupe_map),
         paused_until |-> JsonDict(text.paused_until),
         timestamp |-> text.timestamp]

\* What save_snapshot gathers: list(dq) of every series and the three alert
\* maps.
SnapshotData ==
    [bars |-> [i \in DOMAIN bars |-> bars[i]],
     last_alert_time |-> last_alert_time,
     dedupe_map |-> dedupe_map,
     paused_until |-> paused_until,
     timestamp |-> now]

FileOf(data) == [present |-> TRUE, text |-> JsonDump(data)]

\* save_snapshot: the data is dumped to a temporary file that is then renamed
\* over the path.
SaveSnapshot ==
    /\ snapshot_file' = FileOf(SnapshotData)
    /\ last_op' = [kind |-> "save_snapshot", saved |-> SnapshotData]
    /\ UNCHANGED <<barVars, callbacks, alertVars, now, raises, historyVars, restVars>>

\* A new process: MarketScanner.__init__ with the same max_len; the file at
\* the snapshot path is still there.
NewStore ==
    /\ bars' = EmptyMap
    /\ bars_closed' = 0
    /\ bars_received' = 0
    /\ callbacks' = <<>>
    /\ last_alert_time' = EmptyMap
    /\ dedupe_map' = EmptyMap
    /\ paused_until' = EmptyMap
    /\ hist' = [i \in Instruments |-> <<>>]
    /\ frozen' = [i \in Instruments |-> <<>>]
    /\ dlog' = <<>>
    /\ last_op' = [kind |-> "new_store",
                   saved |-> IF last_op.kind = "save_snapshot"
                             THEN <<last_op.saved>> ELSE <<>>]
    /\ UNCHANGED <<max_len, snapshot_file, now, raises, restVars>>

\* load_snapshot: every instrument of the file gets a fresh deque of the
\* file's bars; the alert maps are replaced by the file's.
LoadSnapshot ==
    /\ snapshot_file.present
    /\ LET data == JsonLoad(snapshot_file.text)
           fb == data.bars
           all == DOMAIN bars \cup DOMAIN fb
       IN  /\ bars' = [i \in all |->
                          IF i \in DOMAIN fb THEN DequeFrom(fb[i], max_len) ELSE bars[i]]
           /\ hist' = [i \in Instruments |->
                          IF i \in DOMAIN fb THEN fb[i] ELSE hist[i]]
           /\ frozen' = [i \in Instruments |->
                          IF i \in DOMAIN fb THEN fb[i] ELSE frozen[i]]
           /\ last_alert_time' = data.last_alert_time
           /\ dedupe_map' = data.dedupe_map
           /\ paused_until' = data.paused_until
    /\ last_op' = [kind |-> "load_snapshot",
                   saved |-> IF last_op.kind = "new_store" THEN last_op.saved ELSE <<>>]
    /\ UNCHANGED <<dlog, max_len, bars_closed, bars_received, callbacks, raises,
                   snapshot_file, now, restVars>>

\* ---- the alert marks ----

\* mark_alert_emitted(inst)
MarkAlertEmitted(inst) ==
    /\ last_alert_time' = (inst :> now) @@ last_alert_time
    /\ UNCHANGED <<barVars, listenerVars, dedupe_map, paused_until, snapshot_file,
                   now, historyVars, restVars>>

\* mark_instrument_paused(inst, until_ts)
MarkInstrumentPaused(inst, until_ts) ==
    /\ paused_until' = (inst :> until_ts) @@ paused_until
    /\ UNCHANGED <<barVars, listenerVars, last_alert_time, dedupe_map, snapshot_file,
                   now, historyVars, restVars>>

(***************************************************************************)
(* strategy/scanner.py: threads inside the scanner's methods, one step for *)
(* each point where another thread can run in between                      *)
(***************************************************************************)

\* What no step of a thread inside append_ohlc_bar or replay_bars changes.
aside == <<max_len, bars_received, alertVars, snapshot_file, now, raises, last_op,
           dlog, evalVars, decisionVars>>

\* Listeners that read, through get_last_bar, the instrument they are called
\* for.
Readers == {"cbA"}

InFlight == Cardinality({t \in Threads : pc[t] # "idle"})

Goto(t, label) == pc' = [pc EXCEPT ![t] = label]

Return(t) ==
    /\ pc' = [pc EXCEPT ![t] = "idle"]
    /\ frame' = [frame EXCEPT ![t] = NoFrame]

\* with self._lock_for(inst): entered once the lock is free
Acquire(t, inst) == locks[inst] = Free /\ locks' = [locks EXCEPT ![inst] = t]

Release(inst) == locks' = [locks EXCEPT ![inst] = Free]

\* self._bars[inst].append(bar), with the history kept beside the store
AppendUnderLock(inst, bar) ==
    /\ bars' = [bars EXCEPT ![inst] = DequeAppend(@, bar, max_len)]
    /\ hist' = [hist EXCEPT ![inst] = Append(@, bar)]
    /\ frozen' = [frozen EXCEPT
                    ![inst] = Append(FreezeSuperseded(@, hist[inst], bar.time), bar)]

\* ---- _ensure_inst, called first by append_ohlc_bar and replay_bars ----

\* with self._global_lock: entered, whether or not the instrument is known.
EnsureInstEnter(t) ==
    /\ pc[t] \in {"aob_ensure", "rp_ensure"}
    /\ Acquire(t, GlobalLock)
    /\ Goto(t, IF pc[t] = "aob_ensure" THEN "aob_ensuring" ELSE "rp_ensuring")
    /\ UNCHANGED <<aside, frame, bars, bars_closed, callbacks, hist, frozen>>

\* The series is made if it is missing, and the global lock is let go.
EnsureInstLeave(t) ==
    /\ pc[t] \in {"aob_ensuring", "rp_ensuring"}
    /\ bars' = EnsureInst(bars, frame[t].inst)
    /\ Release(GlobalLock)
    /\ Goto(t, IF pc[t] = "aob_ensuring" THEN "aob_acquire" ELSE "rp_acquire")
    /\ UNCHANGED <<aside, frame, bars_closed, callbacks, hist, frozen>>

\* ---- append_ohlc_bar ----

\* The call; registered tells whether the instrument had its series already.
AobCall(t, inst, bar) ==
    /\ pc[t] = "idle"
    /\ frame' = [frame EXCEPT ![t] = [op |-> "append_ohlc_bar", inst |-> inst,
                                      registered |-> inst \in DOMAIN bars,
                                      bar |-> bar, tmp |-> 0, cbs |-> <<>>, j |-> 0]]
    /\ Goto(t, "aob_ensure")
    /\ UNCHANGED <<aside, locks, bars, bars_closed, callbacks, hist, frozen>>

AobAcquire(t) ==
    /\ pc[t] = "aob_acquire"
    /\ Acquire(t, frame[t].inst)
    /\ Goto(t, "aob_append")
    /\ UNCHANGED <<aside, frame, bars, bars_closed, callbacks, hist, frozen>>

AobAppend(t) ==
    /\ pc[t] = "aob_append"
    /\ AppendUnderLock(frame[t].inst, frame[t].bar)
    /\ Goto(t, "aob_load")
    /\ UNCHANGED <<aside, locks, frame, bars_closed, callbacks>>

\* self.bars_closed += 1 reads the counter ...
AobLoad(t) ==
    /\ pc[t] = "aob_load"
    /\ frame' = [frame EXCEPT ![t].tmp = bars_closed]
    /\ Goto(t, "aob_store")
    /\ UNCHANGED <<aside, locks, bars, bars_closed, callbacks, hist, frozen>>

\* ... and writes it back; the with block ends, and the loop takes its copy
\* of the listener list.
AobStore(t) ==
    /\ pc[t] = "aob_store"
    /\ bars_closed' = frame[t].tmp + 1
    /\ Release(frame[t].inst)
    /\ frame' = [frame EXCEPT ![t].cbs = callbacks, ![t].j = 1]
    /\ Goto(t, "aob_dispatch")
    /\ UNCHANGED <<aside, bars, callbacks, hist, frozen>>

\* The loop over the copied list: the next listener is called, or the method
\* returns.
AobDispatch(t) ==
    /\ pc[t] = "aob_dispatch"
    /\ IF frame[t].j > Len(frame[t].cbs)
       THEN Return(t)
       ELSE Goto(t, "aob_in_listener") /\ UNCHANGED frame
    /\ UNCHANGED <<aside, locks, bars, bars_closed, callbacks, hist, frozen>>

\* ---- replay_bars ----

RpCall(t, inst, items, call_callbacks) ==
    /\ pc[t] = "idle"
    /\ frame' = [frame EXCEPT ![t] = [op |-> "replay_bars", inst |-> inst,
                                      registered |-> inst \in DOMAIN bars,
                                      items |-> items, k |-> 1,
                                      call_callbacks |-> call_callbacks,
                                      tmp |-> 0, cbs |-> <<>>, j |-> 0]]
    /\ Goto(t, "rp_ensure")
    /\ UNCHANGED <<aside, locks, bars, bars_closed, callbacks, hist, frozen>>

RpAcquire(t) ==
    /\ pc[t] = "rp_acquire"
    /\ Acquire(t, frame[t].inst)
    /\ Goto(t, "rp_next")
    /\ UNCHANGED <<aside, frame, bars, bars_closed, callbacks, hist, frozen>>

\* for bar in bars: a malformed bar is skipped, a well-formed one appended;
\* after the last one the with block ends and the method returns.
RpNext(t) ==
    /\ pc[t] = "rp_next"
    /\ LET f == frame[t]
       IN  IF f.k > Len(f.items)
           THEN /\ Release(f.inst)
                /\ Return(t)
                /\ UNCHANGED <<bars, hist, frozen>>
           ELSE IF ~IsWellFormed(f.items[f.k])
           THEN /\ frame' = [frame EXCEPT ![t].k = @ + 1]
                /\ UNCHANGED <<pc, locks, bars, hist, frozen>>
           ELSE /\ AppendUnderLock(f.inst, f.items[f.k])
                /\ Goto(t, "rp_load")
                /\ UNCHANGED <<locks, frame>>
    /\ UNCHANGED <<aside, bars_closed, callbacks>>

RpLoad(t) ==
    /\ pc[t] = "rp_load"
    /\ frame' = [frame EXCEPT ![t].tmp = bars_closed]
    /\ Goto(t, "rp_store")
    /\ UNCHANGED <<aside, locks, bars, bars_closed, callbacks, hist, frozen>>

\* The counter is written back; with call_callbacks the inner loop takes its
\* copy of the listener list, still inside the with block.
RpStore(t) ==
    /\ pc[t] = "rp_store"
    /\ bars_closed' = frame[t].tmp + 1
    /\ IF frame[t].call_callbacks
       THEN /\ frame' = [frame EXCEPT ![t].cbs = callbacks, ![t].j = 1]
            /\ Goto(t, "rp_dispatch")
       ELSE /\ frame' = [frame EXCEPT ![t].k = @ + 1]
            /\ Goto(t, "rp_next")
    /\ UNCHANGED <<aside, locks, bars, callbacks, hist, frozen>>

RpDispatch(t) ==
    /\ pc[t] = "rp_dispatch"
    /\ IF frame[t].j > Len(frame[t].cbs)
       THEN frame' = [frame EXCEPT ![t].k = @ + 1] /\ Goto(t, "rp_next")
       ELSE Goto(t, "rp_in_listener") /\ UNCHANGED frame
    /\ UNCHANGED <<aside, locks, bars, bars_closed, callbacks, hist, frozen>>

\* ---- a listener called by either loop ----

InListener(t) == pc[t] \in {"aob_in_listener", "rp_in_listener"}

\* cb(inst, bar) runs to its end: a reader first takes and releases the
\* lock of the instrument (get_last_bar) and so waits while the lock is held;
\* whether the listener returns or raises, the loop goes on (try / except
\* Exception: pass).
ListenerBody(t) ==
    /\ InListener(t)
    /\ frame[t].cbs[frame[t].j] \in Readers => locks[frame[t].inst] = Free
    /\ frame' = [frame EXCEPT ![t].j = @ + 1]
    /\ Goto(t, IF pc[t] = "aob_in_listener" THEN "aob_dispatch" ELSE "rp_dispatch")
    /\ UNCHANGED <<aside, locks, bars, bars_closed, callbacks, hist, frozen>>

\* ---- dedupe_alert ----

\* The call and now_ts = time.time().
DdCall(t, inst, direction, window_seconds) ==
    /\ pc[t] = "idle"
    /\ frame' = [frame EXCEPT ![t] = [op |-> "dedupe_alert", inst |-> inst,
                                      direction |-> direction,
                                      window |-> window_seconds, now_ts |-> now,
                                      last_for_dir |-> 0]]
    /\ Goto(t, "dd_read")
    /\ UNCHANGED <<scannerVars, locks, evalVars, decisionVars>>

\* last_for_dir is read and tested: inside the window the call returns True.
DdRead(t) ==
    /\ pc[t] = "dd_read"
    /\ LET f == frame[t]
           m1 == TouchInst(dedupe_map, f.inst)
           last_for_dir == LastForDir(m1, f.inst, f.direction)
       IN  /\ dedupe_map' = m1
           /\ IF IsWithinWindow(last_for_dir, f.now_ts, f.window)
              THEN /\ dlog' = Append(dlog, [inst |-> f.inst, direction |-> f.direction,
                                            window |-> f.window, at |-> f.now_ts,
                                            duplicate |-> TRUE,
                                            before |-> last_for_dir,
                                            after |-> last_for_dir])
                   /\ Return(t)
              ELSE /\ frame' = [frame EXCEPT ![t].last_for_dir = last_for_dir]
                   /\ Goto(t, "dd_write")
                   /\ UNCHANGED dlog
    /\ UNCHANGED <<barVars, listenerVars, last_alert_time, paused_until, snapshot_file,
                   now, hist, frozen, locks, evalVars, decisionVars>>

\* The emission is recorded and the call returns False.
DdWrite(t) ==
    /\ pc[t] = "dd_write"
    /\ LET f == frame[t]
           m1 == TouchInst(dedupe_map, f.inst)
       IN  /\ dedupe_map' = [m1 EXCEPT ![f.inst] = (f.direction :> f.now_ts) @@ @]
           /\ dlog' = Append(dlog, [inst |-> f.inst, direction |-> f.direction,
                                    window |-> f.window, at |-> f.now_ts,
                                    duplicate |-> FALSE,
                                    before |-> f.last_for_dir, after |-> f.now_ts])
    /\ Return(t)
    /\ UNCHANGED <<barVars, listenerVars, last_alert_time, paused_until, snapshot_file,
                   now, hist, frozen, locks, evalVars, decisionVars>>

(***************************************************************************)
(* strategy/price_action.py                                                *)
(***************************************************************************)

\* The score and quality price_action_context computes from what its helpers
\* found: the pullback ("NONE", "PULLBACK_UP", "PULLBACK_DOWN"), the
\* rejection type of the last bar ("NONE", "BULLISH", "BEARISH"), the
\* momentum (units of 0.0001) and the two EMAs (0 stands for None or 0.0,
\* both falsy in the alignment test).
\* ema_short / ema_long left at their default, None.
NoEma == -1

\* `if ema_short and ema_long`: neither None nor 0.0.
Truthy(ema) == ema # NoEma /\ ema # 0

\* detect_quality_pullback: no pullback without a positive ATR; the trend is
\* UP or DOWN when both EMAs are given and differ; up_ok / down_ok say whether
\* the depth under the swing high / over the swing low lies within
\* [0.25, 1.1] ATR.
detect_quality_pullback(ema_short, ema_long, atr_ok, up_ok, down_ok) ==
    IF ~atr_ok THEN "NONE"
    ELSE LET trend == IF ema_short # NoEma /\ ema_long # NoEma
                      THEN IF ema_short > ema_long THEN "UP"
                           ELSE IF ema_short < ema_long THEN "DOWN"
                           ELSE "NONE"
                      ELSE "NONE"
         IN  IF trend = "UP" /\ up_ok THEN "PULLBACK_UP"
             ELSE IF trend = "DOWN" /\ down_ok THEN "PULLBACK_DOWN"
             ELSE "NONE"

PriceActionScore(pb, rej, mom, ema_short, ema_long) ==
    LET s1 == IF pb # "NONE" THEN 8000 ELSE 0
        s2 == IF rej = "BULLISH" THEN s1 + 9000
              ELSE IF rej = "BEARISH" THEN s1 - 9000
              ELSE s1
        s3 == IF mom >= 4000 THEN s2 + 7000 ELSE s2 - 4000
        s4 == IF Truthy(ema_short) /\ Truthy(ema_long)
              THEN IF ema_short > ema_long /\ pb = "PULLBACK_UP" THEN s3 + 4000
                   ELSE IF ema_short < ema_long /\ pb = "PULLBACK_DOWN" THEN s3 - 4000
                   ELSE s3
              ELSE s3
    IN  s4

\* HIGH from 1.3 on.
PriceActionQualityFromLower(score) ==
    IF Abs(score) >= 13000 THEN "HIGH"
    ELSE IF Abs(score) >= 10000 THEN "MEDIUM"
    ELSE "LOW"

PriceActionQuality(score) ==
    IF Abs(score) >= 16000 THEN "HIGH"
    ELSE IF Abs(score) >= 10000 THEN "MEDIUM"
    ELSE "LOW"

\* price_action_context as the detector and the decision engine call it: no
\* EMAs, so detect_quality_pullback finds no trend and returns None.
price_action_context(rej, mom) ==
    LET score == PriceActionScore("NONE", rej, mom, NoEma, NoEma)
    IN  [score |-> score, quality |-> PriceActionQuality(score),
         rejection_type |-> rej, momentum |-> mom]

\* price_action_context with its optional EMAs.  in.enough: at least 15
\* closes; in.atr_ok: the ATR is positive; in.rejection_type and in.momentum:
\* what rejection_info and momentum_quality answer for the series.
PriceActionContext(in) ==
    IF ~in.enough
    THEN [pullback |-> "NONE", rejection_type |-> "NONE", momentum |-> 0,
          score |-> 0, quality |-> "LOW"]
    ELSE LET pb == detect_quality_pullback(in.ema_short, in.ema_long, in.atr_ok,
                                           in.up_ok, in.down_ok)
             score == PriceActionScore(pb, in.rejection_type, in.momentum,
                                       in.ema_short, in.ema_long)
         IN  [pullback |-> pb, rejection_type |-> in.rejection_type,
              momentum |-> in.momentum, score |-> score,
              quality |-> PriceActionQuality(score)]

PriceActionCall ==
    /\ call_in.fn = "price_action_context"
    /\ ~call_out.done
    /\ call_out' = [done |-> TRUE, value |-> PriceActionContext(call_in)]
    /\ UNCHANGED <<call_in, dec_in, dec_out, dec_trace, scannerVars, threadVars,
                   evalVars>>

(***************************************************************************)
(* strategy/sr_levels.py                                                   *)
(***************************************************************************)

\* sum(cluster)
Total(values) ==
    LET RECURSIVE Sum(_)
        Sum(k) == IF k = 0 THEN 0 ELSE values[k] + Sum(k - 1)
    IN  Sum(Len(values))

\* _cluster_levels, the linear scan over the sorted peaks: a peak joins the
\* running cluster when |p - avg| <= avg * tol_pct with tol_pct = 0.005 (the
\* test multiplied through by 1000 * len(cluster)), else it opens a new one.
RECURSIVE ClusterScan(_, _, _)
ClusterScan(rest, cluster, clusters) ==
    IF rest = <<>> THEN Append(clusters, cluster)
    ELSE LET p == Head(rest)
             sum == Total(cluster)
         IN  IF 1000 * Abs(p * Len(cluster) - sum) <= 5 * sum
             THEN ClusterScan(Tail(rest), Append(cluster, p), clusters)
             ELSE ClusterScan(Tail(rest), <<p>>, Append(clusters, cluster))

\* _cluster_levels(peaks): level = mean(c), count = strength = len(c), by
\* level ascending.  The peaks explored make every mean a whole number.
cluster_levels(peaks) ==
    IF peaks = <<>> THEN <<>>
    ELSE LET sorted_peaks == SortSeq(peaks, LAMBDA a, b : a < b)
             clusters == ClusterScan(Tail(sorted_peaks), <<sorted_peaks[1]>>, <<>>)
         IN  [k \in DOMAIN clusters |->
                 [level |-> Total(clusters[k]) \div Len(clusters[k]),
                  count |-> Len(clusters[k]),
                  strength |-> Len(clusters[k])]]

\* seq[:n]
FirstN(seq, n) == SubSeq(seq, 1, Min(n, Len(seq)))

\* compute_sr_levels from the clustering on (lines 127-136), given the values
\* of the local maxima of the highs and of the local minima of the lows.
compute_sr_levels(resistances, supports, max_levels) ==
    LET resist_clusters == cluster_levels(resistances)
        supp_clusters == cluster_levels(supports)
    IN  [supports |->
            FirstN(SortSeq(supp_clusters, LAMBDA a, b : a.level < b.level),
                   max_levels),
         resistances |->
            FirstN(SortSeq(resist_clusters, LAMBDA a, b : a.level > b.level),
                   max_levels)]

\* One call of compute_sr_levels while the last close is call_in.price.
ComputeSrLevelsCall ==
    /\ call_in.fn = "compute_sr_levels"
    /\ ~call_out.done
    /\ call_out' =
          [done |-> TRUE,
           value |-> compute_sr_levels(call_in.resistances, call_in.supports,
                                       call_in.max_levels)]
    /\ UNCHANGED <<call_in, dec_in, dec_out, dec_trace, scannerVars, threadVars,
                   evalVars>>

\* min(1.5, 0.5 + 0.25 * strength), in hundredths.
StrengthFactor(strength) == Min(150, 50 + 25 * strength)

\* The closeness growing with the distance.
ClosenessGrows(dist_pct) == dist_pct

\* Line 239: proximity_threshold - dist, in units of 0.0001.
Closeness(dist_pct) == 150 - dist_pct

\* sr_location_score(price, nearest_sr, direction) with the default
\* proximity_threshold of 0.015; nearest_sr.type = "NONE" stands for None.
sr_location_score(nearest_sr, direction) ==
    IF nearest_sr.type = "NONE" THEN 0
    ELSE IF nearest_sr.dist_pct > 150 THEN 0
    ELSE LET num == Closeness(nearest_sr.dist_pct) * StrengthFactor(nearest_sr.strength)
             sign == IF direction = "LONG"
                     THEN (IF nearest_sr.type = "support" THEN 1
                           ELSE IF nearest_sr.type = "resistance" THEN -1 ELSE 0)
                     ELSE IF direction = "SHORT"
                     THEN (IF nearest_sr.type = "resistance" THEN 1
                           ELSE IF nearest_sr.type = "support" THEN -1 ELSE 0)
                     ELSE 0
             \* closeness * strength_factor is num / 15000; clamped to 1.0 and
             \* rounded to three decimals
             mag == IF num > 15000 THEN 10000 ELSE 10 * RoundHalfDown(num, 15)
         IN  sign * mag

\* sr_location_score called for one level and direction at two distances.
SrLocationCall ==
    /\ call_in.fn = "sr_location_score"
    /\ ~call_out.done
    /\ call_out' =
          [done |-> TRUE,
           near |-> sr_location_score(
                        [type |-> call_in.type, dist_pct |-> call_in.d1,
                         strength |-> call_in.strength], call_in.direction),
           far |-> sr_location_score(
                       [type |-> call_in.type, dist_pct |-> call_in.d2,
                        strength |-> call_in.strength], call_in.direction)]
    /\ UNCHANGED <<call_in, dec_in, dec_out, dec_trace, scannerVars, threadVars,
                   evalVars>>

\* get_nearest_sr: the candidates in the order the two loops visit them, the
\* distance of each kept exact as num / den (supports are measured against
\* the level, resistances against the price).
Candidates(price, sr) ==
    [k \in DOMAIN sr.supports |->
        [type |-> "support", level |-> sr.supports[k].level,
         num |-> Abs(price - sr.supports[k].level),
         den |-> Max(sr.supports[k].level, 1),
         strength |-> sr.supports[k].strength]]
    \o
    [k \in DOMAIN sr.resistances |->
        [type |-> "resistance", level |-> sr.resistances[k].level,
         num |-> Abs(sr.resistances[k].level - price),
         den |-> Max(price, 1),
         strength |-> sr.resistances[k].strength]]

NoNearest == [type |-> "NONE", level |-> 0, num |-> 0, den |-> 1, strength |-> 0]

\* dist < best_dist, with best_dist = inf before the first candidate.
RECURSIVE BestOf(_, _)
BestOf(cands, best) ==
    IF cands = <<>> THEN best
    ELSE LET c == Head(cands)
         IN  IF best.type = "NONE" \/ c.num * best.den < best.num * c.den
             THEN BestOf(Tail(cands), c)
             ELSE BestOf(Tail(cands), best)

\* max_search_pct in units of 0.0001: best["dist_pct"] <= max_search_pct.
get_nearest_sr(price, sr, max_search_pct) ==
    LET best == BestOf(Candidates(price, sr), NoNearest)
    IN  IF best.type # "NONE" /\ 10000 * best.num <= max_search_pct * best.den
        THEN best
        ELSE NoNearest

(***************************************************************************)
(* strategy/pullback_detector.py                                           *)
(***************************************************************************)

NoSignal == [signal |-> "NONE", direction |-> "NONE", nearest_level |-> NoNearest]

\* The potential gate letting every level through.
PotentialTooSmallNever(nearest) == FALSE

\* Lines 129-132: potential = nearest["dist_pct"]; potential < 0.0065.
PotentialTooSmall(nearest) == 10000 * nearest.num < 65 * nearest.den

\* detect_pullback_signal.  Of the series the call reads the number of bars,
\* the last close (in.price), the SR levels computed from highs and lows, and
\* the displacements |closes[-1] - closes[-8]| (in.move8) and
\* |closes[-1] - closes[-6]| (in.move6); compute_atr, analyze_volatility and
\* analyze_volume answer in.atr, in.volat_state and in.vol_score.
detect_pullback_signal(in) ==
    LET nearest == get_nearest_sr(in.price, in.sr, 150)
        trade_direction ==
            IF nearest.type = "support" /\ in.htf_direction = "BULLISH" THEN "LONG"
            ELSE IF nearest.type = "resistance" /\ in.htf_direction = "BEARISH"
                 THEN "SHORT"
                 ELSE "NONE"
        pa == price_action_context(in.rejection_type, in.momentum)
        \* location + potential, times nearest.den: (0.015 - d) * 80 stays
        \* under its cap of 2.0 and d * 100 under its cap of 2.0 for d <= 0.015.
        placed == 12000 * nearest.den + 200000 * nearest.num
        rest == Abs(pa.score) + in.vol_score + 15000 + Min((10000 * in.move6) \div in.atr, 20000)
        total == rest * nearest.den + placed
    IN  IF in.n_bars < 40 THEN NoSignal
        ELSE IF nearest.type = "NONE" THEN NoSignal
        ELSE IF trade_direction = "NONE" THEN NoSignal
        ELSE IF in.atr <= 0 THEN NoSignal
        ELSE IF 10000 * in.atr < 45 * Max(in.price, 1) THEN NoSignal
        ELSE IF 10 * in.move8 > 13 * in.atr THEN NoSignal
        ELSE IF in.volat_state # "EXPANDING" THEN NoSignal
        ELSE IF pa.quality # "HIGH" THEN NoSignal
        ELSE IF in.vol_score < 10000 THEN NoSignal
        ELSE IF 100 * in.move6 < 45 * in.atr THEN NoSignal
        ELSE IF PotentialTooSmall(nearest) THEN NoSignal
        ELSE IF total >= 70000 * nearest.den
             THEN [signal |-> "CONFIRMED", direction |-> trade_direction,
                   nearest_level |-> nearest]
        ELSE IF total >= 50000 * nearest.den
             THEN [signal |-> "POTENTIAL", direction |-> trade_direction,
                   nearest_level |-> nearest]
        ELSE NoSignal

DetectPullbackCall ==
    /\ call_in.fn = "detect_pullback_signal"
    /\ ~call_out.done
    /\ call_out' = [done |-> TRUE, value |-> detect_pullback_signal(call_in)]
    /\ UNCHANGED <<call_in, dec_in, dec_out, dec_trace, scannerVars, threadVars,
                   evalVars>>

(***************************************************************************)
(* core/market_streamer.py and execution/execution_engine.py               *)
(***************************************************************************)

\* The instrument marked only once a trade was opened.
MarkSignalledOnTrade(signalled, inst, outcome) ==
    IF outcome = "traded" THEN signalled \cup {inst} ELSE signalled

\* Line 109: signals_today[today].add(inst_key), whatever handle_entry does.
MarkSignalled(signalled, inst, outcome) == signalled \cup {inst}

\* handle_entry: declined by risk_manager.can_trade_now(), no order from
\* place_limit_order, an exception out of it, or the trade handed to the
\* trade monitor.
EntryOutcomes == {"declined", "no_order", "raised", "traded"}

\* What strategy_engine.evaluate hands back to the handler: None, or a
\* DecisionResult in one of its states.
EvaluateAnswers == {"NONE", "IGNORE", "PREPARE_LONG", "EXECUTE_LONG", "EXECUTE_SHORT"}

\* on_message for a message with one feed, received on day `day`.  parsed:
\* the feed has a price and an OHLC bar (else the loop continues at lines 79,
\* 85 or 94); answer: what evaluate returned; outcome: what handle_entry did.
\* The store and the engine the handler calls into are left as they are:
\* their answers are drawn from what they can give.
OnMessage(day, inst, parsed, answer, outcome) ==
    LET known == IF day \in DOMAIN signals_today THEN signals_today
                 ELSE signals_today @@ (day :> {})
        execute == parsed /\ answer \in {"EXECUTE_LONG", "EXECUTE_SHORT"}
        enter == execute /\ inst \notin known[day]
    IN  /\ today' = day
        /\ handled' = handled + 1
        /\ executes' =
              IF ~execute THEN executes
              ELSE IF <<day, inst>> \in DOMAIN executes
                   THEN [executes EXCEPT ![<<day, inst>>] = @ + 1]
                   ELSE executes @@ (<<day, inst>> :> 1)
        /\ signals_today' =
              IF enter
              THEN [known EXCEPT ![day] = MarkSignalled(@, inst, outcome)]
              ELSE known
        /\ entries' =
              IF enter
              THEN Append(entries, [day |-> day, inst |-> inst, state |-> answer,
                                    outcome |-> outcome])
              ELSE entries
        /\ UNCHANGED <<mtf_buffers, vwap_calculators, ev, ev_seen, ev_given,
                       scannerVars, threadVars, decisionVars>>

(***************************************************************************)
(* strategy/decision_engine.py                                             *)
(***************************************************************************)

NoComponents == [n \in {} |-> 0]

DecisionResult(state, score, direction, components, reason) ==
    [state |-> state, score |-> score, direction |-> direction,
     components |-> components, reason |-> reason]

Ignore(reason) == DecisionResult("IGNORE", 0, "NONE", NoComponents, reason)

\* The wrong state string on the watchlist return: a POTENTIAL signal reported
\* as EXECUTE_{direction}.
PotentialDecisionWrongState(direction) ==
    DecisionResult("EXECUTE_" \o direction, 20000, direction,
                   [n \in {"structure"} |-> 20000],
                   "potential setup - waiting for strength")

\* The return for a POTENTIAL signal.
PotentialDecision(direction) ==
    DecisionResult("PREPARE_" \o direction, 20000, direction,
                   [n \in {"structure"} |-> 20000],
                   "potential setup - waiting for strength")

\* The score rounded without the cap.
ClampedScoreUncapped(raw) == Round2(raw)

\* Line 176: score = round(min(score, 10.0), 2)
ClampedScore(raw) == Round2(Min(raw, 100000))

\* Step 10: clamp, round, and the threshold cascade.
FinalClassification(raw, direction, components) ==
    LET score == ClampedScore(raw)
        state == IF score >= 80000 THEN "EXECUTE_" \o direction
                 ELSE IF score >= 65000 THEN "PREPARE_" \o direction
                 ELSE "IGNORE"
        reason == IF score >= 80000 THEN "institutional-grade setup"
                  ELSE IF score >= 65000 THEN "good setup but needs trigger"
                  ELSE "edge not strong enough"
    IN  DecisionResult(state, score,
                       IF state # "IGNORE" THEN direction ELSE "NONE",
                       components, reason)

\* Gate 2 with only the LONG side tested.
HtfAlignedLongOnly(direction, htf_bias_direction) ==
    ~(direction = "LONG" /\ htf_bias_direction # "BULLISH")

\* Gate 2: neither "LONG without BULLISH" nor "SHORT without BEARISH".
HtfAligned(direction, htf_bias_direction) ==
    /\ ~(direction = "LONG" /\ htf_bias_direction # "BULLISH")
    /\ ~(direction = "SHORT" /\ htf_bias_direction # "BEARISH")

\* Gate 4
VwapAccepted(direction, acceptance) ==
    /\ ~(direction = "LONG" /\ acceptance # "ABOVE")
    /\ ~(direction = "SHORT" /\ acceptance # "BELOW")

\* What one call returns, with the gates it got to.
Ran(result, evaluated) == [result |-> result, evaluated |-> evaluated]

\* The call with the regime gate tested before the HTF gate.
DecisionRunRegimeFirst(in) ==
    LET sig == in.pullback_signal
        direction == sig.direction
    IN  IF sig.signal = "CONFIRMED" /\ in.market_regime # "TRENDING"
        THEN Ran(Ignore("not a trend regime"), <<"structure", "regime">>)
        ELSE IF sig.signal = "CONFIRMED"
                /\ ~HtfAligned(direction, in.htf_bias_direction)
        THEN Ran(Ignore("htf misaligned"), <<"structure", "regime", "htf">>)
        ELSE Ran(Ignore("no pullback setup"), <<"structure">>)

\* final_trade_decision, statement by statement.  The analyzers of the
\* excluded collaborators (analyze_volume, analyze_volatility,
\* analyze_liquidity) enter as the results they returned, and are called only
\* when their gate is reached; price_action_context and sr_location_score are
\* computed.  The engine passes opens=closes to price_action_context.
DecisionRun(in) ==
    LET sig == in.pullback_signal
        direction == sig.direction
        pa == price_action_context(in.rejection_type, in.momentum)
        sr == sr_location_score(sig.nearest_level, direction)
        c1 == ("structure" :> 40000)
        c2 == c1 @@ ("htf" :> 20000)
        c3 == c2 @@ ("regime" :> 15000)
        c4 == c3 @@ ("vwap" :> 15000)
        c5 == c4 @@ ("volume" :> in.vol_score)
        c6 == c5 @@ ("volatility" :> 15000)
        c7 == c6 @@ ("liquidity" :> 10000)
        c8 == c7 @@ ("price_action" :> Abs(pa.score))
        c9 == c8 @@ ("sr" :> sr)
        raw == 40000 + 20000 + 15000 + 15000 + in.vol_score + 15000 + 10000
               + Abs(pa.score) + (sr * 3) \div 2
        g1 == <<"structure">>
        g2 == Append(g1, "htf")
        g3 == Append(g2, "regime")
        g4 == Append(g3, "vwap")
        g5 == Append(g4, "volume")
        g6 == Append(g5, "volatility")
        g7 == Append(g6, "liquidity")
        g8 == Append(g7, "price_action")
        g9 == Append(g8, "sr")
    IN  IF sig.signal = "NONE" THEN Ran(Ignore("no pullback setup"), g1)
        ELSE IF sig.signal = "POTENTIAL" THEN Ran(PotentialDecision(direction), g1)
        ELSE IF ~HtfAligned(direction, in.htf_bias_direction)
        THEN Ran(Ignore("htf misaligned"), g2)
        ELSE IF in.market_regime # "TRENDING" THEN Ran(Ignore("not a trend regime"), g3)
        ELSE IF ~VwapAccepted(direction, in.acceptance)
        THEN Ran(Ignore(IF direction = "LONG" THEN "not accepted above VWAP"
                        ELSE "not accepted below VWAP"), g4)
        ELSE IF in.vol_score < 10000 THEN Ran(Ignore("volume not strong enough"), g5)
        ELSE IF in.volat_state # "EXPANDING"
        THEN Ran(Ignore("volatility not expanding"), g6)
        ELSE IF in.liq_score < 0 THEN Ran(Ignore("illiquid instrument"), g7)
        ELSE IF pa.quality # "HIGH" THEN Ran(Ignore("price action not high quality"), g8)
        ELSE IF sr <= 0 THEN Ran(Ignore("poor SR location"), g9)
        ELSE Ran(FinalClassification(raw, direction, c9), g9)

\* The DecisionResult the call returns.
final_trade_decision(in) == DecisionRun(in).result

\* ---- the inputs one decision is drawn from ----

NoLevel == [type |-> "NONE", dist_pct |-> 0, strength |-> 0]

\* Distances (units of 0.0001) a nearest level may lie at: on the level, just
\* past the detector's 0.65% potential gate, on and beyond the 1.5% threshold.
LevelDistances == {0, 70, 150, 200}

MaxStrength == 3

NearestLevels ==
    [type : {"support", "resistance"}, dist_pct : LevelDistances,
     strength : 1..MaxStrength]

PullbackSignals ==
    {[signal |-> "NONE", direction |-> "NONE", nearest_level |-> NoLevel]}
    \cup [signal : {"POTENTIAL"}, direction : {"LONG", "SHORT"},
          nearest_level : {NoLevel}]
    \cup [signal : {"CONFIRMED"}, direction : {"LONG", "SHORT"},
          nearest_level : NearestLevels]

DecisionInputs ==
    [pullback_signal : PullbackSignals,
     market_regime : {"TRENDING", "WEAK"},
     htf_bias_direction : {"BULLISH", "BEARISH", "NEUTRAL"},
     acceptance : {"ABOVE", "BELOW"},
     vol_score : {5000, 10000, 20000},
     volat_state : {"EXPANDING", "NORMAL"},
     liq_score : {-10000, 0},
     rejection_type : {"NONE", "BULLISH", "BEARISH"},
     momentum : {0, 4000}]

NoDecision == DecisionResult("NOT_CALLED", 0, "NONE", NoComponents, "")

Decide ==
    /\ dec_out = NoDecision
    /\ dec_out' = final_trade_decision(dec_in)
    /\ dec_trace' = DecisionRun(dec_in).evaluated
    /\ UNCHANGED <<dec_in, call_in, call_out, scannerVars, threadVars, evalVars>>

(***************************************************************************)
(* strategy/mtf_builder.py and strategy/mtf_context.py                     *)
(***************************************************************************)

MaxMtfBars == 2000

\* MTFBuilder.update: the bar, its time cut to the minute, joins the buffer.
MtfUpdate(buffers, inst, bar) ==
    LET b1 == EnsureInst(buffers, inst)
    IN  [b1 EXCEPT ![inst] =
            DequeAppend(@, [bar EXCEPT !.time = TruncateToMinute(@)], MaxMtfBars)]

RECURSIVE SeqMax(_, _)
SeqMax(seq, f) ==
    IF Len(seq) = 1 THEN seq[1][f] ELSE Max(seq[1][f], SeqMax(Tail(seq), f))

RECURSIVE SeqMin(_, _)
SeqMin(seq, f) ==
    IF Len(seq) = 1 THEN seq[1][f] ELSE Min(seq[1][f], SeqMin(Tail(seq), f))

RECURSIVE SeqSum(_, _)
SeqSum(seq, f) ==
    IF seq = <<>> THEN 0 ELSE seq[1][f] + SeqSum(Tail(seq), f)

\* MTFBuilder._aggregate
Aggregate(chunk) ==
    [time_start |-> chunk[1].time, time_end |-> Last(chunk).time,
     open |-> chunk[1].open, high |-> SeqMax(chunk, "high"),
     low |-> SeqMin(chunk, "low"), close |-> Last(chunk).close,
     volume |-> SeqSum(chunk, "volume")]

\* MTFBuilder.get_latest_tf: <<>> stands for None, <<c>> for a candle.
get_latest_tf(buffers, inst, minutes) ==
    IF inst \notin DOMAIN buffers \/ Len(buffers[inst]) < minutes THEN <<>>
    ELSE <<Aggregate(LastN(buffers[inst], minutes))>>

\* get_tf_history keeping a short block at the head of the buffer.
get_tf_historyKeepsShort(buffers, inst, minutes, lookback) ==
    IF inst \notin DOMAIN buffers THEN <<>>
    ELSE LET bar_list == buffers[inst]
             total == Len(bar_list)
             back == SelectSeq([k \in 1..lookback |-> lookback + 1 - k],
                               LAMBDA i : total - (i - 1) * minutes > 0)
         IN  [k \in 1..Len(back) |->
                 Aggregate(SubSeq(bar_list, Max(1, total - back[k] * minutes + 1),
                                  total - (back[k] - 1) * minutes))]

\* MTFBuilder.get_tf_history: the windows counted back from the tail, the
\* ones that would start before the buffer skipped.
get_tf_history(buffers, inst, minutes, lookback) ==
    IF inst \notin DOMAIN buffers THEN <<>>
    ELSE LET bar_list == buffers[inst]
             total == Len(bar_list)
             back == SelectSeq([k \in 1..lookback |-> lookback + 1 - k],
                               LAMBDA i : total - i * minutes >= 0)
         IN  [k \in 1..Len(back) |->
                 Aggregate(SubSeq(bar_list, total - back[k] * minutes + 1,
                                  total - (back[k] - 1) * minutes))]

NoCall == [fn |-> "none"]
NotReturned == [done |-> FALSE]

\* One call of get_tf_history, with get_latest_tf asked for the same block
\* size on the same buffers.
TfHistoryCall ==
    /\ call_in.fn = "get_tf_history"
    /\ ~call_out.done
    /\ call_out' =
          [done |-> TRUE,
           value |-> get_tf_history(call_in.buffers, call_in.inst, call_in.minutes,
                                    call_in.lookback),
           latest |-> get_latest_tf(call_in.buffers, call_in.inst, call_in.minutes)]
    /\ UNCHANGED <<call_in, dec_in, dec_out, dec_trace, scannerVars, threadVars,
                   evalVars>>

is_bullish(candle) == candle.close > candle.open

is_bearish(candle) == candle.close < candle.open

\* _persistence_score, in units of 0.0001
persistence_score(history) ==
    IF Len(history) < 2 THEN 0
    ELSE LET last == LastN(history, 3)
             bull == Cardinality({k \in DOMAIN last : is_bullish(last[k])})
             bear == Cardinality({k \in DOMAIN last : is_bearish(last[k])})
         IN  IF bull = 3 \/ bear = 3 THEN 6000
             ELSE IF bull >= 2 \/ bear >= 2 THEN 3000
             ELSE 0

\* One candle's vote: weight if bullish, -weight if bearish, else nothing.
Vote(candle, weight) ==
    IF candle = <<>> THEN 0
    ELSE IF is_bullish(candle[1]) THEN weight
    ELSE IF is_bearish(candle[1]) THEN -weight
    ELSE 0

\* The conflict throwing the votes away.
DampedDiscards(votes, conflict) == IF conflict THEN 0 ELSE votes

\* Line 109: score *= 0.5 on a conflict.
Damped(votes, conflict) == IF conflict THEN votes \div 2 ELSE votes

\* analyze_mtf(candle_5m, candle_15m, history_5m, history_15m)
analyze_mtf(candle_5m, candle_15m, history_5m, history_15m) ==
    LET votes == Vote(candle_5m, 7000) + Vote(candle_15m, 13000)
        conflict == /\ candle_5m # <<>>
                    /\ candle_15m # <<>>
                    /\ \/ is_bullish(candle_5m[1]) /\ is_bearish(candle_15m[1])
                       \/ is_bearish(candle_5m[1]) /\ is_bullish(candle_15m[1])
        damped == Damped(votes, conflict)
        score == damped + persistence_score(history_5m)
                        + persistence_score(history_15m)
        strength == Round2(Min(Abs(score), 20000))
    IN  [direction |-> IF Abs(score) < 6000 THEN "NEUTRAL"
                       ELSE IF score > 0 THEN "BULLISH" ELSE "BEARISH",
         strength |-> strength,
         confidence |-> IF strength >= 14000 /\ ~conflict THEN "HIGH"
                        ELSE IF strength >= 8000 THEN "MEDIUM"
                        ELSE "LOW",
         conflict |-> conflict]

\* One call of analyze_mtf.
AnalyzeMtfCall ==
    /\ call_in.fn = "analyze_mtf"
    /\ ~call_out.done
    /\ call_out' =
          [done |-> TRUE,
           value |-> analyze_mtf(call_in.candle_5m, call_in.candle_15m,
                                 call_in.history_5m, call_in.history_15m)]
    /\ UNCHANGED <<call_in, dec_in, dec_out, dec_trace, scannerVars, threadVars,
                   evalVars>>

(***************************************************************************)
(* strategy/strategy_engine.py                                             *)
(***************************************************************************)

MinBars == 40

\* The data gate one bar short.
has_enough_dataOneShort(inst, min_bars) ==
    inst \in DOMAIN bars /\ Len(bars[inst]) >= min_bars - 1

\* MarketScanner.has_enough_data
has_enough_data(inst, min_bars) ==
    inst \in DOMAIN bars /\ Len(bars[inst]) >= min_bars

\* MarketScanner.get_last_n_bars
get_last_n_bars(inst, n) ==
    IF inst \notin DOMAIN bars THEN <<>> ELSE LastN(bars[inst], n)

\* The five accessors evaluate calls, in the order it calls them, and the bar
\* field each one lists.
Accessors == <<"get_prices", "get_highs", "get_lows", "get_closes", "get_volumes">>

AccessorField ==
    [get_prices |-> "close", get_highs |-> "high", get_lows |-> "low",
     get_closes |-> "close", get_volumes |-> "volume"]

\* [b[field] for b in content]
FieldList(content, field) == [k \in 1..Len(content) |-> content[k][field]]

\* The keywords evaluate passes to detect_pullback_signal, and the parameters
\* the detector declares (min_bars alone has a default).
CallKeywords == {"prices", "highs", "lows", "closes", "volumes", "htf_direction"}

DetectorParameters ==
    {"opens", "highs", "lows", "closes", "volumes", "htf_direction", "min_bars"}

DetectorDefaults == {"min_bars"}

\* Python binds a keyword call when every keyword names a parameter and every
\* parameter without a default is given; otherwise the call raises TypeError
\* before the callee's body runs.
CallBinds(keywords, parameters, defaults) ==
    /\ keywords \subseteq parameters
    /\ (parameters \ defaults) \subseteq keywords

\* What the collaborators outside the repository's sources return to one
\* evaluation (market regime, HTF bias, VWAP acceptance, and the analyzers of
\* the decision engine), with the detector's answer should its call bind.
EvalExternals ==
    [pullback_signal :
        {[signal |-> "NONE", direction |-> "NONE", nearest_level |-> NoLevel],
         [signal |-> "POTENTIAL", direction |-> "LONG", nearest_level |-> NoLevel],
         [signal |-> "CONFIRMED", direction |-> "LONG",
          nearest_level |-> [type |-> "support", dist_pct |-> 0, strength |-> 1]]},
     market_regime : {"TRENDING", "WEAK"},
     htf_bias_direction : {"BULLISH", "BEARISH", "NEUTRAL"},
     acceptance : {"ABOVE"},
     vol_score : {20000},
     volat_state : {"EXPANDING"},
     liq_score : {0},
     rejection_type : {"BULLISH"},
     momentum : {4000}]

Finished(inst, status, stages, decision, gates) ==
    [pc |-> "done", inst |-> inst, status |-> status, stages |-> stages,
     decision |-> decision, gates_passed |-> gates]

\* The values of the annotated dict, each with its Python type: a float or
\* a str.
Float(v) == [float |-> v]
Str(v) == [str |-> v]

\* Lines 171-175: the diagnostic context written over the components.
Annotate(decision, mtf_ctx, x) ==
    [decision EXCEPT !.components =
        [n \in DOMAIN @ \cup {"mtf_direction", "mtf_strength", "regime", "htf_bias"} |->
            IF n = "mtf_direction" THEN Str(mtf_ctx.direction)
            ELSE IF n = "mtf_strength" THEN Float(mtf_ctx.strength)
            ELSE IF n = "regime" THEN Str(x.market_regime)
            ELSE IF n = "htf_bias" THEN Str(x.htf_bias_direction)
            ELSE Float(@[n])]]

\* Lines 158-177 of evaluate: the decision engine is called and its result
\* annotated.  dec_out keeps the engine's result as it was returned.
DecideAndAnnotate ==
    /\ call_in.fn = "evaluate"
    /\ ~call_out.done
    /\ dec_out' = final_trade_decision(dec_in)
    /\ dec_trace' = DecisionRun(dec_in).evaluated
    /\ call_out' = [done |-> TRUE,
                    value |-> Annotate(final_trade_decision(dec_in),
                                       call_in.mtf_ctx, dec_in)]
    /\ UNCHANGED <<dec_in, call_in, scannerVars, threadVars, evalVars>>

\* The context gate without its confidence test.
ContextRejectsKeepsLow(mtf_ctx) ==
    \/ mtf_ctx.direction = "NEUTRAL"
    \/ mtf_ctx.conflict

\* Lines 80-88: the hard gates on the timeframe context.
ContextRejects(mtf_ctx) ==
    \/ mtf_ctx.direction = "NEUTRAL"
    \/ mtf_ctx.conflict
    \/ mtf_ctx.confidence = "LOW"

\* evaluate from line 42 on, given the five lists already obtained: the
\* result, and the engine's buffers and calculators afterwards.
EvaluateTail(inst, series, x) ==
    LET last_bar == get_last_n_bars(inst, 1)
        buffers == MtfUpdate(mtf_buffers, inst, last_bar[1])
        mtf_ctx == analyze_mtf(get_latest_tf(buffers, inst, 5),
                               get_latest_tf(buffers, inst, 15),
                               get_tf_history(buffers, inst, 5, 3),
                               get_tf_history(buffers, inst, 15, 3))
        calcs == IF inst \in DOMAIN vwap_calculators
                 THEN [vwap_calculators EXCEPT ![inst] = @ + 1]
                 ELSE (inst :> 1) @@ vwap_calculators
        Out(res, b, c) == [ev |-> res, mtf_buffers |-> b, vwap_calculators |-> c]
    IN  IF \E a \in DOMAIN series : series[a] = <<>>
        THEN Out(Finished(inst, "none", <<"data">>, NoDecision, FALSE),
                 mtf_buffers, vwap_calculators)
        ELSE IF last_bar = <<>>
        THEN Out(Finished(inst, "none", <<"data">>, NoDecision, FALSE),
                 mtf_buffers, vwap_calculators)
        ELSE IF ContextRejects(mtf_ctx)
        THEN Out(Finished(inst, "none", <<"data", "mtf">>, NoDecision, FALSE),
                 buffers, vwap_calculators)
        ELSE IF x.market_regime # "TRENDING"
        THEN Out(Finished(inst, "none", <<"data", "mtf", "regime">>, NoDecision, FALSE),
                 buffers, vwap_calculators)
        ELSE IF mtf_ctx.direction # x.htf_bias_direction
        THEN Out(Finished(inst, "none", <<"data", "mtf", "regime", "vwap", "htf_bias">>,
                          NoDecision, FALSE),
                 buffers, calcs)
        ELSE IF ~CallBinds(CallKeywords, DetectorParameters, DetectorDefaults)
        THEN Out(Finished(inst, "TypeError",
                          <<"data", "mtf", "regime", "vwap", "htf_bias">>,
                          NoDecision, TRUE),
                 buffers, calcs)
        ELSE IF x.pullback_signal.signal = "NONE"
        THEN Out(Finished(inst, "none",
                          <<"data", "mtf", "regime", "vwap", "htf_bias", "pullback">>,
                          NoDecision, TRUE),
                 buffers, calcs)
        ELSE Out(Finished(inst, "decision",
                          <<"data", "mtf", "regime", "vwap", "htf_bias", "pullback",
                            "decision">>,
                          Annotate(final_trade_decision(x), mtf_ctx, x), TRUE),
                 buffers, calcs)

\* evaluate(inst_key, ltp), called where nothing else touches the store (the
\* stream handler ingests and evaluates on one thread).
Evaluate(inst, x) ==
    LET content == get_last_n_bars(inst, max_len)
        series == [k \in DOMAIN Accessors |->
                      FieldList(content, AccessorField[Accessors[k]])]
        out == EvaluateTail(inst, series, x)
    IN  /\ ev.pc \in {"idle", "done"}
        /\ IF ~has_enough_data(inst, MinBars)
           THEN /\ ev' = Finished(inst, "none", <<"data">>, NoDecision, FALSE)
                /\ UNCHANGED <<mtf_buffers, vwap_calculators>>
           ELSE /\ ev' = out.ev
                /\ mtf_buffers' = out.mtf_buffers
                /\ vwap_calculators' = out.vwap_calculators
        /\ ev_seen' = {}
        /\ UNCHANGED <<scannerVars, threadVars, decisionVars, streamVars>>

\* ---- evaluate beside a feed thread: one step for each call into the store ----

\* Line 33: has_enough_data reads the length without the lock.
EvalBegin(inst) ==
    /\ ev.pc \in {"idle", "done"}
    /\ ev' = IF has_enough_data(inst, MinBars)
             THEN [pc |-> "read", inst |-> inst, series |-> <<>>]
             ELSE Finished(inst, "none", <<"data">>, NoDecision, FALSE)
    /\ ev_seen' = {}
    /\ UNCHANGED <<mtf_buffers, vwap_calculators, ev_given, scannerVars, threadVars,
                   decisionVars, streamVars>>

\* Lines 36-40: each accessor takes the instrument's lock, copies the bars
\* and lets the lock go before the next accessor is called.
EvalRead ==
    /\ ev.pc = "read"
    /\ locks[ev.inst] = Free
    /\ LET content == get_last_n_bars(ev.inst, max_len)
           k == Len(ev.series) + 1
       IN  /\ ev' = [ev EXCEPT
                       !.series = Append(@, FieldList(content,
                                                      AccessorField[Accessors[k]])),
                       !.pc = IF k = Len(Accessors) THEN "have_series" ELSE @]
           /\ ev_seen' = ev_seen \cup {content}
    /\ UNCHANGED <<mtf_buffers, vwap_calculators, ev_given, scannerVars, threadVars,
                   decisionVars, streamVars>>

\* Line 42 to the return.
EvalFinish(x) ==
    /\ ev.pc = "have_series"
    /\ locks[ev.inst] = Free
    /\ LET out == EvaluateTail(ev.inst, ev.series, x)
       IN  /\ ev' = out.ev
           /\ mtf_buffers' = out.mtf_buffers
           /\ vwap_calculators' = out.vwap_calculators
    /\ UNCHANGED <<ev_seen, scannerVars, threadVars, decisionVars, streamVars>>

(***************************************************************************)
(* Initial states and specifications                                       *)
(***************************************************************************)

\* MarketScanner.__init__ with max_len = cap and no snapshot on disk.
ScannerInit(cap) ==
    /\ max_len = cap
    /\ bars = EmptyMap
    /\ bars_closed = 0
    /\ bars_received = 0
    /\ callbacks = <<>>
    /\ last_alert_time = EmptyMap
    /\ dedupe_map = EmptyMap
    /\ paused_until = EmptyMap
    /\ last_op = NoOp
    /\ hist = [i \in Instruments |-> <<>>]
    /\ frozen = [i \in Instruments |-> <<>>]
    /\ dlog = <<>>

\* No thread is inside a MarketScanner method.
ThreadsIdle ==
    /\ locks = [i \in Instruments \cup {GlobalLock} |-> Free]
    /\ pc = [t \in Threads |-> "idle"]
    /\ frame = [t \in Threads |-> NoFrame]

\* StrategyEngine.__init__ with an empty dict of VWAP calculators.
NoEvaluation == [pc |-> "idle"]

\* market_streamer.py line 43: signals_today = {}; no message handled yet.
StreamerStart ==
    /\ today = 1
    /\ signals_today = EmptyMap
    /\ entries = <<>>
    /\ handled = 0
    /\ executes = EmptyMap

\* The engine as market_streamer.py makes it (lines 26-29), beside the
\* handler's own state.
EngineInit ==
    /\ mtf_buffers = EmptyMap
    /\ vwap_calculators = EmptyMap
    /\ ev = NoEvaluation
    /\ ev_seen = {}
    /\ ev_given = <<>>
    /\ StreamerStart

\* No decision is being taken.
DecisionIdle ==
    /\ dec_in = CHOOSE in \in DecisionInputs : in.pullback_signal.signal = "NONE"
    /\ dec_out = NoDecision
    /\ dec_trace = <<>>
    /\ call_in = NoCall
    /\ call_out = NotReturned

\* ---- the decision engine on every input ----

DecisionInit ==
    /\ ScannerInit(MaxCap)
    /\ ThreadsIdle
    /\ EngineInit
    /\ snapshot_file = NoFile
    /\ now = 100
    /\ raises = {}
    /\ dec_in \in DecisionInputs
    /\ dec_out = NoDecision
    /\ dec_trace = <<>>
    /\ call_in = NoCall
    /\ call_out = NotReturned

SpecDecision == DecisionInit /\ [][Decide]_vars

\* ---- ticks and closed bars fed to the store ----

\* Closed bars a feed delivers: one rising bar for each minute explored.
BarInputs == {Bar(MinuteStart(m), 1, 2, 1, 2, 1) : m \in 1..MaxMinute}

\* Tick timestamps: the first second and the middle of each minute.
TickTimes == {MinuteStart(m) + sec : m \in 1..MaxMinute, sec \in {0, 30}}

IngestInit ==
    /\ \E cap \in 1..MaxCap : ScannerInit(cap)
    /\ ThreadsIdle
    /\ EngineInit
    /\ snapshot_file = NoFile
    /\ now = 100
    /\ raises = {}
    /\ DecisionIdle

IngestNext ==
    \/ \E i \in Instruments, bar \in BarInputs : Budget(1) /\ AppendOhlcBar(i, bar)
    \/ \E i \in Instruments, ts \in TickTimes, p \in Prices :
          Budget(1) /\ AppendTick(i, ts, p, 1)

SpecIngest == IngestInit /\ [][IngestNext]_vars

\* ---- the store with replay and snapshots ----

\* The bars of minutes 1..n, flat at price 1.
SeedBars(n) == [k \in 1..n |-> Bar(MinuteStart(k), 1, 1, 1, 1, 1)]

\* A bar dict without its "volume" key.
MalformedBar == [time |-> MinuteStart(1), open |-> 1, high |-> 1, low |-> 1,
                 close |-> 1]

ReplayLists ==
    {SeedBars(2), <<MalformedBar>> \o SeedBars(1), SeedBars(MaxCap + 1)}

\* A snapshot left by an earlier run of a store with a larger capacity.
OldSnapshot ==
    FileOf([bars |-> ("X" :> SeedBars(MaxCap + 1)),
            last_alert_time |-> EmptyMap, dedupe_map |-> EmptyMap,
            paused_until |-> EmptyMap, timestamp |-> 0])

StoreInit ==
    /\ \E cap \in 1..MaxCap : ScannerInit(cap)
    /\ ThreadsIdle
    /\ EngineInit
    /\ snapshot_file \in {NoFile, OldSnapshot}
    /\ now = 100
    /\ raises = {}
    /\ DecisionIdle

StoreNext ==
    \/ \E i \in Instruments, bar \in BarInputs : Budget(1) /\ AppendOhlcBar(i, bar)
    \/ \E i \in Instruments, ts \in TickTimes, p \in Prices :
          Budget(1) /\ AppendTick(i, ts, p, 1)
    \/ \E i \in Instruments, items \in ReplayLists, cc \in BOOLEAN :
          Budget(Len(SelectSeq(items, IsWellFormed))) /\ ReplayBars(i, items, cc)
    \/ LoadSnapshot

SpecStore == StoreInit /\ [][StoreNext]_vars

\* ---- registered listeners and closed bars ----

ListenersInit ==
    /\ ScannerInit(MaxCap)
    /\ ThreadsIdle
    /\ EngineInit
    /\ snapshot_file = NoFile
    /\ now = 100
    /\ raises \in SUBSET Listeners
    /\ DecisionIdle

ListenersNext ==
    \/ \E cb \in Listeners : RegisterOnBarClose(cb)
    \/ \E cb \in Listeners : UnregisterOnBarClose(cb)
    \/ \E i \in Instruments, bar \in BarInputs : Budget(1) /\ AppendOhlcBar(i, bar)

SpecListeners == ListenersInit /\ [][ListenersNext]_vars

\* ---- dedupe_alert calls under a moving clock ----

Windows == {0, 2}

DedupInit ==
    /\ ScannerInit(MaxCap)
    /\ ThreadsIdle
    /\ EngineInit
    /\ snapshot_file = NoFile
    /\ now = 100
    /\ raises = {}
    /\ DecisionIdle

DedupNext ==
    \/ \E i \in Instruments, d \in Directions, w \in Windows :
          Len(dlog) < MaxCalls /\ DedupeAlert(i, d, w)
    \/ now < 100 + MaxAdvance /\ ClockAdvance

SpecDedup == DedupInit /\ [][DedupNext]_vars

\* ---- the engine evaluating after each message ----

DefaultMaxLen == 600

MaxFeed == 2        \* bars and ticks fed after the history is replayed
MaxEvals == 10      \* evaluations that get as far as the timeframe buffers

\* The snapshot an earlier run left: n flat bars of "X".
HistorySnapshot(n) ==
    FileOf([bars |-> ("X" :> SeedBars(n)),
            last_alert_time |-> EmptyMap, dedupe_map |-> EmptyMap,
            paused_until |-> EmptyMap, timestamp |-> 0])

EvalInit ==
    /\ ScannerInit(DefaultMaxLen)
    /\ ThreadsIdle
    /\ EngineInit
    /\ snapshot_file \in {HistorySnapshot(n) : n \in {MinBars - 1, MinBars}}
    /\ now = 100
    /\ raises = {}
    /\ DecisionIdle

\* The snapshot is loaded first; the feed follows.
Seeded == "X" \in DOMAIN bars

FeedBudget == Seeded /\ bars_closed + bars_received < MaxFeed

\* What the feed delivers in the minute after the history: the closed bar of
\* that minute, rising, and ticks inside it.
LiveBar == Bar(MinuteStart(MinBars + 1), 1, 2, 1, 2, 1)

EvalBudget(inst) ==
    inst \in DOMAIN mtf_buffers => Len(mtf_buffers[inst]) < MaxEvals

EvalNext ==
    \/ ~Seeded /\ LoadSnapshot
    \/ FeedBudget /\ AppendOhlcBar("X", LiveBar)
    \/ \E p \in Prices : FeedBudget /\ AppendTick("X", LiveBar.time + 30, p, 1)
    \/ \E x \in EvalExternals :
          EvalBudget("X") /\ Evaluate("X", x) /\ UNCHANGED ev_given

SpecEval == EvalInit /\ [][EvalNext]_vars

\* ---- an evaluation on one thread while another thread ingests ----

MaxRuns == 1        \* evaluations that run beside the feed and reach the buffers

RunBudget == "X" \in DOMAIN mtf_buffers => Len(mtf_buffers["X"]) < MaxRuns

AccessNext ==
    \/ ~Seeded /\ LoadSnapshot
    \/ FeedBudget /\ AppendOhlcBar("X", LiveBar)
    \/ \E p \in Prices : FeedBudget /\ AppendTick("X", LiveBar.time + 30, p, 1)
    \/ RunBudget /\ EvalBegin("X")
    \/ EvalRead
    \/ \E x \in EvalExternals : EvalFinish(x) /\ UNCHANGED ev_given

SpecAccess == EvalInit /\ [][AccessNext]_vars

\* ---- get_tf_history on buffers of every length ----

MaxBuffer == 7      \* bars in the 1-minute buffer
MaxBlock == 3       \* minutes in a block
MaxLookback == 3    \* candles asked for

\* The 1-minute bar of minute k; no two bars alike in any field.
TfBar(k) == Bar(MinuteStart(k), 10 * k, 10 * k + 5, 10 * k - 5, 10 * k + 1, k)

\* update() called for minutes 1..n of "X"; "Y" never updated.
TfBuffers(n) == IF n = 0 THEN EmptyMap ELSE ("X" :> [k \in 1..n |-> TfBar(k)])

TfHistoryCalls ==
    [fn : {"get_tf_history"},
     buffers : {TfBuffers(n) : n \in 0..MaxBuffer},
     inst : Instruments,
     minutes : 1..MaxBlock,
     lookback : 0..MaxLookback]

HistoryInit ==
    /\ ScannerInit(MaxCap)
    /\ ThreadsIdle
    /\ EngineInit
    /\ snapshot_file = NoFile
    /\ now = 100
    /\ raises = {}
    /\ dec_in = CHOOSE in \in DecisionInputs : in.pullback_signal.signal = "NONE"
    /\ dec_out = NoDecision
    /\ dec_trace = <<>>
    /\ call_in \in TfHistoryCalls
    /\ call_out = NotReturned

SpecHistory == HistoryInit /\ [][TfHistoryCall]_vars

\* ---- analyze_mtf on every pair of candles and histories ----

MaxHistory == 3     \* candles in a history list

\* Aggregated candles: one bullish, one bearish, one doji.
TfCandles ==
    {[time_start |-> MinuteStart(1), time_end |-> MinuteStart(5), open |-> o,
      high |-> 3, low |-> 1, close |-> c, volume |-> 5] :
        o \in {2}, c \in {1, 2, 3}}

\* None or a candle.
OptionalCandle == {<<>>} \cup {<<c>> : c \in TfCandles}

CandleLists == UNION {[1..n -> TfCandles] : n \in 0..MaxHistory}

AnalyzeMtfCalls ==
    [fn : {"analyze_mtf"},
     candle_5m : OptionalCandle,
     candle_15m : OptionalCandle,
     history_5m : CandleLists,
     history_15m : CandleLists]

ContextInit ==
    /\ ScannerInit(MaxCap)
    /\ ThreadsIdle
    /\ EngineInit
    /\ snapshot_file = NoFile
    /\ now = 100
    /\ raises = {}
    /\ dec_in = CHOOSE in \in DecisionInputs : in.pullback_signal.signal = "NONE"
    /\ dec_out = NoDecision
    /\ dec_trace = <<>>
    /\ call_in \in AnalyzeMtfCalls
    /\ call_out = NotReturned

SpecContext == ContextInit /\ [][AnalyzeMtfCall]_vars

\* ---- compute_sr_levels on every list of peaks ----

MaxPeaks == 3       \* local extrema on each side
MaxLevels == 2      \* max_levels

\* Extrema 10% apart: equal ones cluster, different ones never do.
PeakValues == {1000, 1100, 1200}

PeakLists == UNION {[1..n -> PeakValues] : n \in 0..MaxPeaks}

\* The last close: below, between and above the extrema.
LastPrices == {950, 1150, 1250}

SrLevelsCalls ==
    [fn : {"compute_sr_levels"},
     resistances : PeakLists,
     supports : PeakLists,
     max_levels : 1..MaxLevels,
     price : LastPrices]

\* Everything but the call under study at rest.
AtRest ==
    /\ ScannerInit(MaxCap)
    /\ ThreadsIdle
    /\ EngineInit
    /\ snapshot_file = NoFile
    /\ now = 100
    /\ raises = {}
    /\ dec_in = CHOOSE in \in DecisionInputs : in.pullback_signal.signal = "NONE"
    /\ dec_out = NoDecision
    /\ dec_trace = <<>>

SrLevelsInit ==
    /\ AtRest
    /\ call_in \in SrLevelsCalls
    /\ call_out = NotReturned

SpecSrLevels == SrLevelsInit /\ [][ComputeSrLevelsCall]_vars

\* ---- sr_location_score at pairs of distances ----

\* Distances in units of 0.0001: on the level, around the middle of the
\* influence zone, around the 1.5% threshold and beyond.
SrDistances == {0, 1, 74, 75, 76, 149, 150, 151, 200}

\* "NONE" as type stands for nearest_sr = None.
SrLocationCalls ==
    [fn : {"sr_location_score"},
     type : {"support", "resistance", "NONE"},
     strength : 1..MaxStrength,
     direction : {"LONG", "SHORT"},
     d1 : SrDistances,
     d2 : SrDistances]

SrLocationInit ==
    /\ AtRest
    /\ call_in \in SrLocationCalls
    /\ call_out = NotReturned

SpecSrLocation == SrLocationInit /\ [][SrLocationCall]_vars

\* ---- detect_pullback_signal over levels around a last close of 10000 ----

\* Supports 1.52%, 1.01% and 0.60% under the price, resistances 0.60% and
\* 1.00% over it.
SupportPrices == {9850, 9900, 9940}
ResistancePrices == {10060, 10100}

\* The levels of a set of prices as compute_sr_levels would list them.
LevelList(prices, ascending) ==
    LET seq == CHOOSE q \in [1..Cardinality(prices) -> prices] :
                   \A i, j \in DOMAIN q :
                       i < j => IF ascending THEN q[i] < q[j] ELSE q[i] > q[j]
    IN  [k \in DOMAIN seq |-> [level |-> seq[k], count |-> 1, strength |-> 1]]

SrLevelSets ==
    {[supports |-> LevelList(sp, TRUE), resistances |-> LevelList(rs, FALSE)] :
        sp \in SUBSET SupportPrices, rs \in SUBSET ResistancePrices}

PullbackCalls ==
    [fn : {"detect_pullback_signal"},
     n_bars : {39, 40},
     price : {10000},
     sr : SrLevelSets,
     htf_direction : {"BULLISH", "BEARISH", "NEUTRAL"},
     atr : {0, 40, 50},
     move8 : {30, 70},
     move6 : {20, 30, 100},
     volat_state : {"EXPANDING", "NORMAL"},
     rejection_type : {"NONE", "BULLISH", "BEARISH"},
     momentum : {0, 4000},
     vol_score : {5000, 10000, 20000}]

PullbackInit ==
    /\ AtRest
    /\ call_in \in PullbackCalls
    /\ call_out = NotReturned

SpecPullback == PullbackInit /\ [][DetectPullbackCall]_vars

\* ---- price_action_context with and without EMAs ----

\* rejection_info finds no rejection without a positive ATR.
PriceActionCalls ==
    {c \in [fn : {"price_action_context"},
            enough : BOOLEAN,
            atr_ok : BOOLEAN,
            ema_short : {NoEma, 0, 1, 2},
            ema_long : {NoEma, 0, 1, 2},
            up_ok : BOOLEAN,
            down_ok : BOOLEAN,
            rejection_type : {"NONE", "BULLISH", "BEARISH"},
            momentum : {0, 3990, 4000, 9000}] :
        ~c.atr_ok => c.rejection_type = "NONE"}

PaInit ==
    /\ AtRest
    /\ call_in \in PriceActionCalls
    /\ call_out = NotReturned

SpecPriceAction == PaInit /\ [][PriceActionCall]_vars

\* ---- the stream handler over the messages of two days ----

MaxDay == 2         \* calendar days the messages fall on
MaxMessages == 3    \* messages handled in one run

StreamNext ==
    \E day \in today..MaxDay, inst \in Instruments, parsed \in BOOLEAN,
       answer \in EvaluateAnswers, outcome \in EntryOutcomes :
        /\ handled < MaxMessages
        /\ OnMessage(day, inst, parsed, answer, outcome)

StreamInit ==
    /\ AtRest
    /\ call_in = NoCall
    /\ call_out = NotReturned

SpecStream == StreamInit /\ [][StreamNext]_vars

\* ---- the end of evaluate: the decision engine's result annotated ----

\* What reaches line 158: a TRENDING regime, a bias that is the context's
\* direction, and a signal from the detector.
AnnotateInit ==
    /\ ScannerInit(MaxCap)
    /\ ThreadsIdle
    /\ EngineInit
    /\ snapshot_file = NoFile
    /\ now = 100
    /\ raises = {}
    /\ dec_in \in {in \in DecisionInputs :
                      /\ in.market_regime = "TRENDING"
                      /\ in.htf_bias_direction # "NEUTRAL"
                      /\ in.pullback_signal.signal # "NONE"}
    /\ dec_out = NoDecision
    /\ dec_trace = <<>>
    /\ call_in \in [fn : {"evaluate"},
                    mtf_ctx : [direction : {dec_in.htf_bias_direction},
                               strength : {8000, 20000}]]
    /\ call_out = NotReturned

SpecAnnotate == AnnotateInit /\ [][DecideAndAnnotate]_vars

\* ---- the stages of each evaluation, with what the collaborators answered ----

MaxStageEvals == 15     \* evaluations that get as far as the timeframe buffers

\* The snapshot an earlier run left: a full history of "X", and a history of
\* "Y" one bar short of what an evaluation asks for.
StagesSnapshot ==
    FileOf([bars |-> ("X" :> SeedBars(MinBars)) @@ ("Y" :> SeedBars(MinBars - 1)),
            last_alert_time |-> EmptyMap, dedupe_map |-> EmptyMap,
            paused_until |-> EmptyMap, timestamp |-> 0])

StagesInit ==
    /\ ScannerInit(DefaultMaxLen)
    /\ ThreadsIdle
    /\ EngineInit
    /\ snapshot_file = StagesSnapshot
    /\ now = 100
    /\ raises = {}
    /\ DecisionIdle

\* The closed bars the feed delivers after the history: one rising from 1 to
\* 2, then one falling from 3 to 2.
StageFeed ==
    <<Bar(MinuteStart(MinBars + 1), 1, 2, 1, 2, 1),
      Bar(MinuteStart(MinBars + 2), 3, 3, 2, 2, 1)>>

\* The answers that send an evaluation down each branch after the context gate.
StageExternals ==
    {x \in EvalExternals :
        /\ x.pullback_signal.signal # "POTENTIAL"
        /\ x.htf_bias_direction # "NEUTRAL"}

StageBudget(inst) ==
    inst \in DOMAIN mtf_buffers => Len(mtf_buffers[inst]) < MaxStageEvals

\* An evaluation short of data asks no collaborator.
StagesNext ==
    \/ ~Seeded /\ LoadSnapshot
    \/ /\ Seeded
       /\ bars_closed < Len(StageFeed)
       /\ AppendOhlcBar("X", StageFeed[bars_closed + 1])
    \/ \E i \in Instruments, x \in StageExternals :
          /\ StageBudget(i)
          /\ Evaluate(i, x)
          /\ ev_given' = IF has_enough_data(i, MinBars) THEN <<x>> ELSE <<>>

SpecStages == StagesInit /\ [][StagesNext]_vars

\* ---- threads ingesting and replaying closed bars ----

MaxThreadOps == 3   \* append_ohlc_bar and replay_bars calls in one run

\* Room for one more call: each call in progress or finished adds a bar.
DispatchBudget == Len(hist["X"]) + Len(hist["Y"]) + InFlight < MaxThreadOps

DispatchInit ==
    /\ ScannerInit(MaxCap)
    /\ ThreadsIdle
    /\ EngineInit
    /\ snapshot_file = NoFile
    /\ now = 100
    /\ raises \in {{}, {"cbB"}}
    /\ DecisionIdle

DispatchNext ==
    \/ \E cb \in Listeners : RegisterOnBarClose(cb)
    \/ \E t \in Threads, i \in Instruments :
          DispatchBudget /\ AobCall(t, i, Bar(MinuteStart(1), 1, 2, 1, 2, 1))
    \/ \E t \in Threads : EnsureInstEnter(t)
    \/ \E t \in Threads : EnsureInstLeave(t)
    \/ \E t \in Threads : AobAcquire(t)
    \/ \E t \in Threads : AobAppend(t)
    \/ \E t \in Threads : AobLoad(t)
    \/ \E t \in Threads : AobStore(t)
    \/ \E t \in Threads : AobDispatch(t)
    \/ \E t \in Threads, i \in Instruments, cc \in BOOLEAN :
          DispatchBudget /\ RpCall(t, i, <<MalformedBar>> \o SeedBars(1), cc)
    \/ \E t \in Threads : RpAcquire(t)
    \/ \E t \in Threads : RpNext(t)
    \/ \E t \in Threads : RpLoad(t)
    \/ \E t \in Threads : RpStore(t)
    \/ \E t \in Threads : RpDispatch(t)
    \/ \E t \in Threads : ListenerBody(t)

SpecDispatch == DispatchInit /\ [][DispatchNext]_vars

\* ---- threads asking dedupe_alert ----

MaxRaceCalls == 2   \* dedupe_alert calls in one run of the threads

RaceNext ==
    \/ \E t \in Threads, i \in Instruments, d \in Directions, w \in Windows :
          Len(dlog) + InFlight < MaxRaceCalls /\ DdCall(t, i, d, w)
    \/ \E t \in Threads : DdRead(t)
    \/ \E t \in Threads : DdWrite(t)
    \/ now < 100 + MaxAdvance /\ ClockAdvance

SpecDedupRace == DedupInit /\ [][RaceNext]_vars

\* ---- a store saved, and its snapshot loaded by the next process ----

MaxSnapOps == 2     \* bars and ticks ingested before the save
MaxAlertOps == 2    \* alert operations before the save

AlertOpsDone ==
    Len(dlog) + Cardinality(DOMAIN last_alert_time) + Cardinality(DOMAIN paused_until)

SnapshotNext ==
    \/ \E i \in Instruments, bar \in BarInputs :
          /\ ~snapshot_file.present
          /\ bars_closed + bars_received < MaxSnapOps
          /\ AppendOhlcBar(i, bar)
    \/ \E i \in Instruments, ts \in TickTimes :
          /\ ~snapshot_file.present
          /\ bars_closed + bars_received < MaxSnapOps
          /\ AppendTick(i, ts, 1, 1)
    \/ \E i \in Instruments, d \in Directions :
          /\ ~snapshot_file.present
          /\ AlertOpsDone < MaxAlertOps
          /\ DedupeAlert(i, d, 2)
    \/ \E i \in Instruments :
          /\ ~snapshot_file.present
          /\ AlertOpsDone < MaxAlertOps
          /\ i \notin DOMAIN last_alert_time
          /\ MarkAlertEmitted(i)
    \/ \E i \in Instruments :
          /\ ~snapshot_file.present
          /\ AlertOpsDone < MaxAlertOps
          /\ i \notin DOMAIN paused_until
          /\ MarkInstrumentPaused(i, now + 60)
    \/ ~snapshot_file.present /\ SaveSnapshot
    \/ last_op.kind = "save_snapshot" /\ NewStore
    \/ last_op.kind = "new_store" /\ LoadSnapshot

SpecSnapshot == IngestInit /\ [][SnapshotNext]_vars

(***************************************************************************)
(* The claims                                                              *)
(***************************************************************************)

IsExecute(d) == d.state \in {"EXECUTE_LONG", "EXECUTE_SHORT"}
IsPrepare(d) == d.state \in {"PREPARE_LONG", "PREPARE_SHORT"}

\* C1 as stated: no returned Decision is EXECUTE_* with score < 8.0 or
\* PREPARE_* with score < 6.5, whatever the inputs.
C1_ThresholdsForEveryInput ==
    /\ IsExecute(dec_out) => dec_out.score >= 80000
    /\ IsPrepare(dec_out) => dec_out.score >= 65000

\* C1 amended: EXECUTE_* always carries score >= 8.0; PREPARE_* carries
\* score >= 6.5 unless the structure signal is POTENTIAL, for which the engine
\* returns PREPARE_{direction} with the fixed score 2.0.
C1_ThresholdsExceptPotential ==
    /\ IsExecute(dec_out) => dec_out.score >= 80000
    /\ IsPrepare(dec_out) =>
          \/ dec_out.score >= 65000
          \/ /\ dec_in.pullback_signal.signal = "POTENTIAL"
             /\ dec_out.score = 20000

\* A CONFIRMED signal passed the nine gates and was classified by the cascade.
C1_Witness ==
    /\ dec_in.pullback_signal.signal = "CONFIRMED"
    /\ IsExecute(dec_out)
    /\ dec_out.score >= 80000

\* C3: every instrument's series holds at most max_len bars and is exactly
\* the most recent max_len bars put into it, in insertion order (the oldest
\* is the one evicted), after any run of ingest_bar, ingest_tick, replay and
\* snapshot-load.
C3_CapacityFifo ==
    \A i \in DOMAIN bars :
        /\ Len(bars[i]) <= max_len
        /\ bars[i] = LastN(hist[i], max_len)

\* A full series took another bar and the oldest one left it.
C3_Witness ==
    \E i \in DOMAIN bars :
        /\ Len(hist[i]) > max_len
        /\ Len(bars[i]) = max_len
        /\ bars[i][1] # hist[i][1]

\* C4: within one instrument the bars are ascending by timestamp and no two
\* share a timestamp.
C4_AscendingUniqueTimes ==
    \A i \in DOMAIN bars :
        \A j, k \in DOMAIN bars[i] : j < k => bars[i][j].time < bars[i][k].time

\* C5: once a bar is closed (ingested through ingest_bar, or superseded by a
\* bar of a later minute) its fields keep the values they had at that moment.
C5_ClosedBarsImmutable ==
    \A i \in Instruments :
        \A k \in DOMAIN hist[i] :
            frozen[i][k] # OpenBar => hist[i][k] = frozen[i][k]

\* C8: along any run of is_duplicate calls under a non-decreasing clock, a
\* call is answered "duplicate" exactly when a not-suppressed call for the
\* same instrument and direction was recorded less than `window` seconds
\* before it; a suppressed call leaves the recorded timestamp as it was, a
\* not-suppressed call records the current time; calls for the other
\* direction or another instrument play no part.
C8_DedupWindow ==
    \A k \in DOMAIN dlog :
        LET c == dlog[k]
            recorded == {j \in 1..(k - 1) :
                            /\ dlog[j].inst = c.inst
                            /\ dlog[j].direction = c.direction
                            /\ ~dlog[j].duplicate}
        IN  /\ c.duplicate <=> \E j \in recorded : c.at - dlog[j].at < c.window
            /\ c.duplicate => c.after = c.before
            /\ ~c.duplicate => c.after = c.at

\* A repeat inside the window was suppressed, and a later repeat outside the
\* window of the recorded call was let through.
C8_Witness ==
    \E j, k \in DOMAIN dlog :
        /\ j < k
        /\ dlog[j].inst = dlog[k].inst /\ dlog[j].direction = dlog[k].direction
        /\ ~dlog[j].duplicate /\ dlog[k].duplicate
        /\ dlog[k].at > dlog[j].at

\* C10: ingest_bar calls every registered listener exactly once, in
\* registration order, with (instrument, closed bar), whichever of them
\* raise; the bar stays in the series, the closed-bar counter is one higher,
\* and the call returns normally.
C10_ListenersIsolated ==
    last_op.kind = "append_ohlc_bar" =>
        /\ last_op.outcome = "returned"
        /\ Len(last_op.calls) = Len(last_op.listeners)
        /\ \A k \in DOMAIN last_op.listeners :
              last_op.calls[k] = [cb |-> last_op.listeners[k],
                                  inst |-> last_op.inst, bar |-> last_op.bar]
        /\ \A k \in DOMAIN last_op.listeners :
              Cardinality({j \in DOMAIN last_op.calls :
                              last_op.calls[j].cb = last_op.listeners[k]}) = 1
        /\ last_op.inst \in DOMAIN bars
        /\ bars[last_op.inst] # <<>>
        /\ Last(bars[last_op.inst]) = last_op.bar
        /\ bars_closed = last_op.closed_before + 1

\* Two listeners were registered, the first of them raises, and a bar was
\* ingested.
C10_Witness ==
    /\ last_op.kind = "append_ohlc_bar"
    /\ Len(last_op.listeners) = 2
    /\ last_op.listeners[1] \in raises
    /\ Len(last_op.calls) = 2

\* C2: an evaluation whose data, timeframe-context, regime and HTF-bias gates
\* all pass runs the pullback detector and ends either with no decision or
\* with the annotated decision; no evaluation ends in an error.
C2_EvaluationCompletes ==
    ev.pc = "done" =>
        /\ ev.status \in {"none", "decision"}
        /\ ev.gates_passed => "pullback" \in {ev.stages[k] : k \in DOMAIN ev.stages}

\* C6: the five lists an evaluation obtains while another thread ingests are
\* the fields of one and the same content of the series, one of those the
\* series had when the accessors were called.
C6_OnePointInTime ==
    ev.pc = "have_series" =>
        \E content \in ev_seen :
            \A k \in DOMAIN Accessors :
                ev.series[k] = FieldList(content, AccessorField[Accessors[k]])

\* C7: of two dedupe_alert calls for the same instrument and direction, made
\* by whichever threads, that are both told "not a duplicate", the one that
\* returns later lies at least its window away from the other.
C7_OneNotDuplicateInWindow ==
    \A j, k \in DOMAIN dlog :
        (/\ j < k
         /\ dlog[j].inst = dlog[k].inst
         /\ dlog[j].direction = dlog[k].direction
         /\ ~dlog[j].duplicate
         /\ ~dlog[k].duplicate)
        => Abs(dlog[k].at - dlog[j].at) >= dlog[k].window

\* C9: while a thread is inside a bar-close listener it was dispatching, from
\* append_ohlc_bar or from replay_bars, it does not hold the lock of the
\* instrument the listener was called for.
C9_ListenersOutsideLock ==
    \A t \in Threads : InListener(t) => locks[frame[t].inst] # t

\* C11: a snapshot saved by a store and loaded by a fresh store of the same
\* capacity gives back, for every instrument present at the save, the same
\* bars in the same order, and the same last-alert, per-direction dedup and
\* pause-until maps.
C11_SnapshotRoundTrip ==
    (last_op.kind = "load_snapshot" /\ last_op.saved # <<>>) =>
        LET saved == last_op.saved[1]
        IN  /\ \A i \in DOMAIN saved.bars :
                  i \in DOMAIN bars /\ bars[i] = saved.bars[i]
            /\ last_alert_time = saved.last_alert_time
            /\ dedupe_map = saved.dedupe_map
            /\ paused_until = saved.paused_until

\* A snapshot with bars and alert state was loaded by a fresh store.
C11_Witness ==
    /\ last_op.kind = "load_snapshot"
    /\ last_op.saved # <<>>
    /\ \E i \in DOMAIN bars : bars[i] # <<>>
    /\ dedupe_map # EmptyMap
    /\ paused_until # EmptyMap

\* C12: a thread ingesting a bar into an instrument that already has its
\* series never stands before a lock held by a thread working on another
\* instrument.
C12_NoSharedLockForRegistered ==
    \A t, u \in Threads :
        (/\ t # u
         /\ pc[t] \in {"aob_ensure", "aob_acquire"}
         /\ frame[t].registered
         /\ locks[IF pc[t] = "aob_ensure" THEN GlobalLock ELSE frame[t].inst] = u)
        => frame[u].inst = frame[t].inst

Decided == dec_out # NoDecision

BiasMismatch(in) ==
    \/ in.pullback_signal.direction = "LONG" /\ in.htf_bias_direction # "BULLISH"
    \/ in.pullback_signal.direction = "SHORT" /\ in.htf_bias_direction # "BEARISH"

IgnoredForBias ==
    /\ dec_out.state = "IGNORE"
    /\ dec_out.reason = "htf misaligned"

\* C13: a signal whose direction does not match the higher-timeframe bias is
\* answered with IGNORE and the bias-mismatch reason, whatever its
\* classification and the other components.
C13_MismatchIgnoredAlways ==
    (Decided /\ BiasMismatch(dec_in)) => IgnoredForBias

\* C13 amended: a CONFIRMED signal whose direction does not match the
\* higher-timeframe bias is answered with IGNORE and the bias-mismatch reason,
\* whatever the other components; a POTENTIAL signal is answered with
\* PREPARE_{direction} before the bias is looked at.
C13_MismatchIgnoredWhenConfirmed ==
    (Decided /\ BiasMismatch(dec_in)) =>
        IF dec_in.pullback_signal.signal = "CONFIRMED" THEN IgnoredForBias
        ELSE /\ dec_in.pullback_signal.signal = "POTENTIAL"
             /\ dec_out.state = "PREPARE_" \o dec_in.pullback_signal.direction

\* A CONFIRMED SHORT signal under a BULLISH bias, every other gate in its
\* favour, was ignored.
C13_Witness ==
    /\ Decided
    /\ dec_in.pullback_signal.signal = "CONFIRMED"
    /\ dec_in.pullback_signal.direction = "SHORT"
    /\ dec_in.htf_bias_direction = "BULLISH"
    /\ dec_in.market_regime = "TRENDING"
    /\ dec_in.acceptance = "BELOW"
    /\ dec_in.vol_score >= 10000
    /\ dec_in.volat_state = "EXPANDING"
    /\ dec_in.liq_score >= 0
    /\ IgnoredForBias

\* The nine gates in the order claimed, and for each whether the input fails
\* it and the reason given then.
GateOrder ==
    <<"structure", "htf", "regime", "vwap", "volume", "volatility", "liquidity",
      "price_action", "sr">>

GateFails(k, in) ==
    LET d == in.pullback_signal.direction
    IN  CASE k = 1 -> in.pullback_signal.signal = "NONE"
          [] k = 2 -> BiasMismatch(in)
          [] k = 3 -> in.market_regime # "TRENDING"
          [] k = 4 -> \/ d = "LONG" /\ in.acceptance # "ABOVE"
                      \/ d = "SHORT" /\ in.acceptance # "BELOW"
          [] k = 5 -> in.vol_score < 10000
          [] k = 6 -> in.volat_state # "EXPANDING"
          [] k = 7 -> in.liq_score < 0
          [] k = 8 -> price_action_context(in.rejection_type, in.momentum).quality
                         # "HIGH"
          [] k = 9 -> sr_location_score(in.pullback_signal.nearest_level, d) <= 0

GateReason(k, in) ==
    CASE k = 1 -> "no pullback setup"
      [] k = 2 -> "htf misaligned"
      [] k = 3 -> "not a trend regime"
      [] k = 4 -> IF in.pullback_signal.direction = "LONG"
                  THEN "not accepted above VWAP" ELSE "not accepted below VWAP"
      [] k = 5 -> "volume not strong enough"
      [] k = 6 -> "volatility not expanding"
      [] k = 7 -> "illiquid instrument"
      [] k = 8 -> "price action not high quality"
      [] k = 9 -> "poor SR location"

FailingGates(in) == {k \in 1..9 : GateFails(k, in)}

FirstFailing(in) ==
    CHOOSE k \in FailingGates(in) : \A j \in FailingGates(in) : k <= j

\* C14: for a CONFIRMED signal that fails one or more gates the answer is
\* IGNORE with score 0, no direction, and the reason of the lowest-numbered
\* failing gate in the order structure, HTF, regime, VWAP, volume, volatility,
\* liquidity, price action, SR; the gates evaluated are those up to that one.
C14_GatesInOrder ==
    (/\ Decided
     /\ dec_in.pullback_signal.signal = "CONFIRMED"
     /\ FailingGates(dec_in) # {})
    => LET k == FirstFailing(dec_in)
       IN  /\ dec_out.state = "IGNORE"
           /\ dec_out.score = 0
           /\ dec_out.direction = "NONE"
           /\ dec_out.reason = GateReason(k, dec_in)
           /\ dec_trace = SubSeq(GateOrder, 1, k)

\* A CONFIRMED signal failed the regime, volume and liquidity gates and was
\* ignored for the regime.
C14_Witness ==
    /\ Decided
    /\ dec_in.pullback_signal.signal = "CONFIRMED"
    /\ {3, 5, 7} \subseteq FailingGates(dec_in)
    /\ 2 \notin FailingGates(dec_in)
    /\ dec_out.reason = "not a trend regime"
    /\ dec_trace = <<"structure", "htf", "regime">>

AllGatesPassed ==
    /\ Decided
    /\ dec_in.pullback_signal.signal = "CONFIRMED"
    /\ FailingGates(dec_in) = {}

\* C15: after all nine gates passed, the components hold for each gate the
\* weight it added to the score: structure 4.0, HTF 2.0, regime 1.5, VWAP 1.5,
\* volume its score, volatility 1.5, liquidity 1.0, price action |its score|,
\* SR its score times 1.5.
C15_ComponentsAreWeights ==
    AllGatesPassed =>
        LET in == dec_in
            pa == price_action_context(in.rejection_type, in.momentum)
            sr == sr_location_score(in.pullback_signal.nearest_level,
                                    in.pullback_signal.direction)
        IN  /\ DOMAIN dec_out.components = {GateOrder[k] : k \in 1..9}
            /\ dec_out.components["structure"] = 40000
            /\ dec_out.components["htf"] = 20000
            /\ dec_out.components["regime"] = 15000
            /\ dec_out.components["vwap"] = 15000
            /\ dec_out.components["volume"] = in.vol_score
            /\ dec_out.components["volatility"] = 15000
            /\ dec_out.components["liquidity"] = 10000
            /\ dec_out.components["price_action"] = Abs(pa.score)
            /\ dec_out.components["sr"] = (sr * 3) \div 2

\* A step that is one evaluate(inst, ltp) call from entry to return.
EvaluationOf(inst) ==
    /\ ev'.pc = "done"
    /\ ev'.inst = inst
    /\ bars' = bars
    /\ <<ev, ev_given, mtf_buffers, vwap_calculators>>'
          # <<ev, ev_given, mtf_buffers, vwap_calculators>>

ShortOfData(inst) == inst \notin DOMAIN bars \/ Len(bars[inst]) < 40

\* C16: an evaluation of an instrument with fewer than 40 bars returns no
\* decision, runs no stage after the data test, and leaves the timeframe
\* buffers, the instrument's VWAP state and the set of VWAP calculators as
\* they were.
C16_NoStageWhenShort ==
    [][\A inst \in Instruments :
          (EvaluationOf(inst) /\ ShortOfData(inst)) =>
              /\ ev'.status = "none"
              /\ ev'.decision = NoDecision
              /\ ev'.stages = <<"data">>
              /\ ev_given' = <<>>
              /\ mtf_buffers' = mtf_buffers
              /\ vwap_calculators' = vwap_calculators]_vars

\* "Y" with 39 bars was evaluated after evaluations of "X" had filled X's
\* buffer and created X's VWAP calculator; Y has neither.
C16_Witness ==
    /\ ev.pc = "done"
    /\ ev.inst = "Y"
    /\ "Y" \in DOMAIN bars
    /\ Len(bars["Y"]) = 39
    /\ ev.stages = <<"data">>
    /\ "X" \in DOMAIN mtf_buffers
    /\ "X" \in DOMAIN vwap_calculators
    /\ "Y" \notin DOMAIN mtf_buffers
    /\ "Y" \notin DOMAIN vwap_calculators

\* The stages of one evaluation in the order claimed; "mtf" is the aggregator
\* update followed by the timeframe context.
StageOrder ==
    <<"data", "mtf", "regime", "vwap", "htf_bias", "pullback", "decision">>

IsPrefix(s, t) == Len(s) <= Len(t) /\ s = SubSeq(t, 1, Len(s))

\* The timeframe context of the buffers as they stand.
ContextOf(inst) ==
    analyze_mtf(get_latest_tf(mtf_buffers, inst, 5),
                get_latest_tf(mtf_buffers, inst, 15),
                get_tf_history(mtf_buffers, inst, 5, 3),
                get_tf_history(mtf_buffers, inst, 15, 3))

ContextHardRejects(ctx) ==
    ctx.direction = "NEUTRAL" \/ ctx.conflict \/ ctx.confidence = "LOW"

VwapUpdates(inst) ==
    IF inst \in DOMAIN vwap_calculators THEN vwap_calculators[inst] ELSE 0

\* What the claim says of a finished evaluation that had enough data, given
\* the context of its buffers and the collaborators' answers.
StagesAsClaimed(inst) ==
    LET x == ev_given[1]
        ctx == ContextOf(inst)
        st == ev.stages
        StageRan(stage) == \E k \in DOMAIN st : st[k] = stage
    IN  /\ IsPrefix(st, StageOrder)
        /\ StageRan("mtf")
        /\ ContextHardRejects(ctx) =>
              st = SubSeq(StageOrder, 1, 2) /\ ev.status = "none"
        /\ (~ContextHardRejects(ctx) /\ x.market_regime # "TRENDING") =>
              st = SubSeq(StageOrder, 1, 3) /\ ev.status = "none"
        /\ (/\ ~ContextHardRejects(ctx)
            /\ x.market_regime = "TRENDING"
            /\ x.htf_bias_direction # ctx.direction) =>
              st = SubSeq(StageOrder, 1, 5) /\ ev.status = "none"
        /\ StageRan("decision") =>
              /\ ~ContextHardRejects(ctx)
              /\ x.market_regime = "TRENDING"
              /\ x.htf_bias_direction = ctx.direction
              /\ x.pullback_signal.signal # "NONE"
              /\ StageRan("pullback")

StoreCandle(inst, n) ==
    LET recent == LastN(bars[inst], n)
    IN  Aggregate([k \in 1..n |-> [recent[k] EXCEPT !.time = TruncateToMinute(@)]])

\* C18: the 5-minute and 15-minute candles an evaluation hands to the context
\* analyzer are the aggregates of the 5 and 15 most recent bars of the
\* instrument's series, each bar counted once with the values it has in the
\* series when the evaluation runs.
C18_CandleFromStoreBars ==
    [][\A inst \in Instruments :
          (EvaluationOf(inst) /\ ~ShortOfData(inst)) =>
              \A n \in {5, 15} :
                  get_latest_tf(mtf_buffers', inst, n) = <<StoreCandle(inst, n)>>]_vars

\* The bars of the instrument the call is about.
CalledBuffer ==
    IF call_in.inst \in DOMAIN call_in.buffers THEN call_in.buffers[call_in.inst]
    ELSE <<>>

\* C19: history(inst, minutes, lookback) on a buffer of n bars returns
\* min(lookback, n \div minutes) candles, oldest first; candle j aggregates
\* exactly `minutes` consecutive bars, each block starts right after the one
\* before it ends, the last block ends at the newest bar, and the last candle
\* is aggregate(inst, minutes).
C19_HistoryBlocks ==
    (call_in.fn = "get_tf_history" /\ call_out.done) =>
        LET buf == CalledBuffer
            n == Len(buf)
            minutes == call_in.minutes
            m == Min(call_in.lookback, n \div minutes)
            out == call_out.value
            First(j) == n - (m - j + 1) * minutes + 1
        IN  /\ Len(out) = m
            /\ \A j \in 1..m :
                  /\ First(j) >= 1
                  /\ out[j] = Aggregate(SubSeq(buf, First(j), First(j) + minutes - 1))
                  /\ j < m => First(j + 1) = First(j) + minutes
                  /\ j = m => First(j) + minutes - 1 = n
            /\ m > 0 => call_out.latest = <<out[m]>>

\* Three 3-minute candles asked of a buffer of seven bars: two came back, the
\* first one starting at the second bar.
C19_Witness ==
    /\ call_in.fn = "get_tf_history"
    /\ call_out.done
    /\ Len(CalledBuffer) = 7
    /\ call_in.minutes = 3
    /\ call_in.lookback = 3
    /\ Len(call_out.value) = 2
    /\ call_out.value[1].time_start = CalledBuffer[2].time
    /\ call_out.value[2].time_end = CalledBuffer[7].time

\* The latest 5-minute and 15-minute candles point opposite ways.
CandlesDisagree ==
    /\ call_in.candle_5m # <<>>
    /\ call_in.candle_15m # <<>>
    /\ LET c5 == call_in.candle_5m[1]
           c15 == call_in.candle_15m[1]
       IN  \/ c5.close > c5.open /\ c15.close < c15.open
           \/ c5.close < c5.open /\ c15.close > c15.open

PersistenceBonus ==
    persistence_score(call_in.history_5m) + persistence_score(call_in.history_15m)

\* The magnitude the same inputs give with the votes left undampened.
UndampedMagnitude ==
    Round2(Min(Abs(Vote(call_in.candle_5m, 7000) + Vote(call_in.candle_15m, 13000)
                   + PersistenceBonus),
               20000))

\* C20: when the latest 5-minute and 15-minute candles disagree, the context
\* has conflict = TRUE and its magnitude is half the magnitude the inputs give
\* without the dampening, whatever the two histories.
C20_ConflictHalvesAlways ==
    (call_in.fn = "analyze_mtf" /\ call_out.done /\ CandlesDisagree) =>
        /\ call_out.value.conflict
        /\ 2 * call_out.value.strength = UndampedMagnitude

\* C20 amended: when the latest 5-minute and 15-minute candles disagree, the
\* context has conflict = TRUE and the vote sum is halved before the
\* persistence bonuses are added: the magnitude is |votes / 2 + bonuses|,
\* which is half the undampened magnitude when neither history earns a bonus.
C20_ConflictHalvesVotes ==
    (call_in.fn = "analyze_mtf" /\ call_out.done /\ CandlesDisagree) =>
        LET votes == Vote(call_in.candle_5m, 7000) + Vote(call_in.candle_15m, 13000)
        IN  /\ call_out.value.conflict
            /\ 2 * call_out.value.strength =
                  Round2(Min(Abs(votes + 2 * PersistenceBonus), 40000))
            /\ PersistenceBonus = 0 =>
                  2 * call_out.value.strength = UndampedMagnitude

\* A bullish 5-minute candle against a bearish 15-minute candle with no
\* history: conflict, magnitude 0.3 where the votes alone give 0.6.
C20_Witness ==
    /\ call_in.fn = "analyze_mtf"
    /\ call_out.done
    /\ CandlesDisagree
    /\ call_in.history_5m = <<>>
    /\ call_in.history_15m = <<>>
    /\ call_out.value.conflict
    /\ call_out.value.strength = 3000
    /\ UndampedMagnitude = 6000

Levels(clusters) == {clusters[k].level : k \in DOMAIN clusters}

\* Of the clusters on one side, the kept ones are the max_levels nearest to
\* the price: as many as max_levels allows, none farther than a dropped one.
KeepsNearest(all, kept, max_levels, price) ==
    /\ Levels(kept) \subseteq Levels(all)
    /\ Len(kept) = Min(max_levels, Len(all))
    /\ \A near \in Levels(kept), far \in Levels(all) \ Levels(kept) :
          Abs(price - near) <= Abs(price - far)

\* C21: compute_sr_levels returns the supports ascending and the resistances
\* descending by price, and on each side keeps the max_levels clusters
\* nearest to the current price: no dropped cluster is nearer than a kept one.
C21_KeepsClosestLevels ==
    (call_in.fn = "compute_sr_levels" /\ call_out.done) =>
        LET sup == call_out.value.supports
            res == call_out.value.resistances
        IN  /\ \A k \in 1..(Len(sup) - 1) : sup[k].level < sup[k + 1].level
            /\ \A k \in 1..(Len(res) - 1) : res[k].level > res[k + 1].level
            /\ KeepsNearest(cluster_levels(call_in.supports), sup,
                            call_in.max_levels, call_in.price)
            /\ KeepsNearest(cluster_levels(call_in.resistances), res,
                            call_in.max_levels, call_in.price)

LocationScored == call_in.fn = "sr_location_score" /\ call_out.done

\* The level favours the direction: support for LONG, resistance for SHORT.
Favours ==
    \/ call_in.type = "support" /\ call_in.direction = "LONG"
    \/ call_in.type = "resistance" /\ call_in.direction = "SHORT"

ZeroBeyondAndBounded ==
    /\ call_in.d1 > 150 => call_out.near = 0
    /\ call_in.d2 > 150 => call_out.far = 0
    /\ call_out.near \in -10000..10000
    /\ call_out.far \in -10000..10000

BothInside == call_in.d1 <= call_in.d2 /\ call_in.d2 <= 150

\* C22: for every level, direction and strength the score is 0 beyond the
\* 1.5% threshold, lies in [-1, 1], and of two distances inside the threshold
\* the larger one never has the larger score.
C22_ScoreNonIncreasingAlways ==
    LocationScored =>
        /\ ZeroBeyondAndBounded
        /\ BothInside => call_out.far <= call_out.near

\* C22 amended: the score is 0 beyond the threshold and lies in [-1, 1]; of
\* two distances inside the threshold the larger one never has the larger
\* magnitude: the score is non-increasing in distance for a level that
\* favours the direction and non-decreasing (negative, rising to 0) for a
\* level that opposes it.
C22_MagnitudeNonIncreasing ==
    LocationScored =>
        /\ ZeroBeyondAndBounded
        /\ BothInside =>
              /\ Abs(call_out.far) <= Abs(call_out.near)
              /\ IF Favours THEN 0 <= call_out.far /\ call_out.far <= call_out.near
                 ELSE call_out.near <= call_out.far /\ call_out.far <= 0

\* A resistance of strength 2 scored for LONG on the level and at half the
\* threshold: -1.0 and -0.5.
C22_Witness ==
    /\ LocationScored
    /\ call_in.type = "resistance"
    /\ call_in.direction = "LONG"
    /\ call_in.strength = 2
    /\ call_in.d1 = 0
    /\ call_in.d2 = 75
    /\ call_out.near = -10000
    /\ call_out.far = -5000

\* C23: the strength factor of a level of one or more members lies in
\* [1, 1.5], and a level on the price that favours the direction scores 1.0.
C23_StrengthFactorAtLeastOne ==
    (LocationScored /\ call_in.type # "NONE") =>
        /\ StrengthFactor(call_in.strength) \in 100..150
        /\ (Favours /\ call_in.d1 = 0) => call_out.near = 10000

PullbackEmitted ==
    /\ call_in.fn = "detect_pullback_signal"
    /\ call_out.done
    /\ call_out.value.signal # "NONE"

\* Every level handed to the detector, with its distance as get_nearest_sr
\* measures it.
LevelsSeen ==
    LET cands == Candidates(call_in.price, call_in.sr)
    IN  {cands[k] : k \in DOMAIN cands}

\* C24: a signal is emitted only if the nearest level is within 1.5% of the
\* price and aligned with the bias (support with BULLISH for LONG, resistance
\* with BEARISH for SHORT), gates (a)-(g) hold, and no level is nearer than
\* 0.65% to the price.
C24_SignalOnlyThroughGates ==
    PullbackEmitted =>
        LET sig == call_out.value
            near == sig.nearest_level
        IN  /\ call_in.n_bars >= 40
            /\ near \in LevelsSeen
            /\ \A c \in LevelsSeen : near.num * c.den <= c.num * near.den
            /\ 10000 * near.num <= 150 * near.den
            /\ \/ near.type = "support" /\ call_in.htf_direction = "BULLISH"
                    /\ sig.direction = "LONG"
               \/ near.type = "resistance" /\ call_in.htf_direction = "BEARISH"
                    /\ sig.direction = "SHORT"
            /\ 10000 * call_in.atr >= 45 * call_in.price
            /\ 10 * call_in.move8 <= 13 * call_in.atr
            /\ call_in.volat_state = "EXPANDING"
            /\ price_action_context(call_in.rejection_type,
                                     call_in.momentum).quality = "HIGH"
            /\ call_in.vol_score >= 10000
            /\ 100 * call_in.move6 >= 45 * call_in.atr
            /\ \A c \in LevelsSeen : 10000 * c.num >= 65 * c.den

\* A SHORT signal at the resistance 1.00% over the price, the support 1.01%
\* under it being the next level.
C24_Witness ==
    /\ PullbackEmitted
    /\ call_out.value.direction = "SHORT"
    /\ call_out.value.nearest_level.level = 10100
    /\ Len(call_in.sr.supports) = 2
    /\ Len(call_in.sr.resistances) = 1

\* C25: a CONFIRMED signal that passes all nine gates is answered with the
\* score 10.0 and EXECUTE_{direction}; no CONFIRMED signal is answered with
\* the cascade's PREPARE state or its "edge not strong enough" IGNORE.
C25_AllGatesMeansExecute ==
    /\ AllGatesPassed =>
          /\ dec_out.score = 100000
          /\ dec_out.state = "EXECUTE_" \o dec_in.pullback_signal.direction
          /\ dec_out.direction = dec_in.pullback_signal.direction
    /\ (Decided /\ dec_in.pullback_signal.signal = "CONFIRMED") =>
          /\ dec_out.state \notin {"PREPARE_LONG", "PREPARE_SHORT"}
          /\ dec_out.reason # "good setup but needs trigger"
          /\ dec_out.reason # "edge not strong enough"

\* A SHORT signal at a resistance of strength 1, 0.7% away, with the weakest
\* volume that passes: the weights sum to 14.5 and the score is 10.0.
C25_Witness ==
    /\ AllGatesPassed
    /\ dec_in.pullback_signal.direction = "SHORT"
    /\ dec_in.pullback_signal.nearest_level.strength = 1
    /\ dec_in.pullback_signal.nearest_level.dist_pct = 70
    /\ dec_in.vol_score = 10000
    /\ dec_out.state = "EXECUTE_SHORT"
    /\ dec_out.score = 100000

\* C26: whenever no ingest call is in progress, the closed-bar counter equals
\* the number of closed bars ingested, which is the number of bars appended
\* to the instruments' series before eviction.
C26_CounterCountsEveryBar ==
    (\A t \in Threads : pc[t] = "idle") =>
        bars_closed = Len(hist["X"]) + Len(hist["Y"])

\* The latest 5m and 15m candles and every candle of both histories are
\* bullish, or all of them are bearish.
AllOneDirection ==
    /\ call_in.candle_5m # <<>>
    /\ call_in.candle_15m # <<>>
    /\ LET all == {call_in.candle_5m[1], call_in.candle_15m[1]}
                  \cup {call_in.history_5m[k] : k \in DOMAIN call_in.history_5m}
                  \cup {call_in.history_15m[k] : k \in DOMAIN call_in.history_15m}
       IN  \/ \A c \in all : c.close > c.open
           \/ \A c \in all : c.close < c.open

\* The same candle pointing the other way.
Mirrored(candle) == [candle EXCEPT !.open = candle.close, !.close = candle.open]

MirroredList(candles) == [k \in DOMAIN candles |-> Mirrored(candles[k])]

OppositeDirection(direction) ==
    IF direction = "BULLISH" THEN "BEARISH"
    ELSE IF direction = "BEARISH" THEN "BULLISH"
    ELSE direction

\* C27: when the latest candles and all history candles share one direction,
\* the strength is at least the strength the latest candles give without
\* history, the direction is the one they give without history, and the
\* result mirrors the result for the mirrored input.
C27_PersistenceReinforces ==
    (call_in.fn = "analyze_mtf" /\ call_out.done /\ AllOneDirection) =>
        LET bare == analyze_mtf(call_in.candle_5m, call_in.candle_15m, <<>>, <<>>)
            mirror == analyze_mtf(MirroredList(call_in.candle_5m),
                                  MirroredList(call_in.candle_15m),
                                  MirroredList(call_in.history_5m),
                                  MirroredList(call_in.history_15m))
        IN  /\ call_out.value.strength >= bare.strength
            /\ call_out.value.direction = bare.direction
            /\ call_out.value.strength = mirror.strength
            /\ call_out.value.direction = OppositeDirection(mirror.direction)

PriceActionReturned == call_in.fn = "price_action_context" /\ call_out.done

\* C28: the quality is never HIGH when the latest bar is a bearish rejection,
\* whatever the pullback, the momentum and the EMAs; without EMAs the quality
\* is HIGH only for a bullish rejection with momentum of 0.4 or more.
C28_HighNeverOnBearishRejection ==
    PriceActionReturned =>
        /\ call_out.value.rejection_type = "BEARISH" =>
              call_out.value.quality # "HIGH"
        /\ (call_in.ema_short = NoEma /\ call_in.ema_long = NoEma
              /\ call_out.value.quality = "HIGH") =>
              /\ call_out.value.rejection_type = "BULLISH"
              /\ call_out.value.momentum >= 4000

\* A bearish rejection after a quality pullback in an up trend, with momentum
\* and the EMA bonus: the score is 1.0 and the quality MEDIUM.
C28_Witness ==
    /\ PriceActionReturned
    /\ call_out.value.rejection_type = "BEARISH"
    /\ call_out.value.pullback = "PULLBACK_UP"
    /\ call_in.momentum = 9000
    /\ call_out.value.score = 10000
    /\ call_out.value.quality = "MEDIUM"

\* The handle_entry calls made for an instrument on a day.
EntriesFor(day, inst) ==
    {k \in DOMAIN entries : entries[k].day = day /\ entries[k].inst = inst}

\* C29: within one day an instrument is handed to handle_entry at most once,
\* however many EXECUTE decisions are returned for it, and it is marked as
\* signalled with the attempt whatever the attempt's outcome, so that a
\* declined or failed entry is not tried again that day.
C29_OneEntryPerDay ==
    /\ \A day \in 1..MaxDay, inst \in Instruments :
          Cardinality(EntriesFor(day, inst)) <= 1
    /\ \A k \in DOMAIN entries :
          /\ entries[k].day \in DOMAIN signals_today
          /\ entries[k].inst \in signals_today[entries[k].day]

\* Two EXECUTE decisions for "X" on day 1, the entry at the first of them
\* declined and no other made; then one on day 2, with its own entry.
C29_Witness ==
    /\ handled = 3
    /\ executes = (<<1, "X">> :> 2) @@ (<<2, "X">> :> 1)
    /\ Len(entries) = 2
    /\ entries[1] = [day |-> 1, inst |-> "X", state |-> "EXECUTE_LONG",
                     outcome |-> "declined"]
    /\ entries[2].day = 2
    /\ entries[2].inst = "X"
    /\ signals_today = (1 :> {"X"}) @@ (2 :> {"X"})

====
